---------------------------- MODULE Spec2Model ----------------------------
(***************************************************************************)
(* A model of the Monkey bytecode toolchain (skatsuta/monkey-compiler):    *)
(* the symbol table (compiler/symbol_table.go), the compiler               *)
(* (compiler/compiler.go), the instruction codec (code/code.go) and the    *)
(* virtual machine (vm/vm.go).                                             *)
(***************************************************************************)
EXTENDS Integers, Sequences, FiniteSets, TLC

VARIABLES
    symTabs,      \* the symbol tables created so far; symTabs[i].outer = 0 is "nil"
    symLast,      \* the last symbol-table call and what it returned
    symDefCount,  \* history: the number of Define calls made on each table
    phase,        \* where a compile-and-run session stands
    ast,          \* the program handed to Compile
    compiler,     \* the Compiler: consts, symTab (chain of tables), scopes, scopeIdx
    compileErr,   \* the error Compile returned
    vm,           \* the VM: constants, stack, sp, globals, frames, framesIdx
    vmErr,        \* the error Run returned
    calls,        \* history: for each live callee frame, the machine at its Call
    codec,        \* a call of Make and the ReadOperands call on what it returned
    repl          \* the REPL: its symbol table, constant pool, globals, last turn

symVars == <<symTabs, symLast, symDefCount>>
runVars == <<phase, ast, compiler, compileErr, vm, vmErr, calls>>
vars == <<symVars, runVars, codec, repl>>

\* What the actions on the symbol table, the actions of a session, the actions
\* on the codec and the REPL leave alone.
notSym == <<runVars, codec, repl>>
notRun == <<symVars, codec, repl>>
notCodec == <<symVars, runVars, repl>>
notRepl == <<symVars, runVars, codec>>

(***************************************************************************)
(* Bounds of the model.                                                    *)
(***************************************************************************)
MaxTables == 4
MaxDefs == 2
MaxBuiltinIdx == 0

Names == {"a", "b"}

(***************************************************************************)
(* compiler/symbol_table.go                                                *)
(***************************************************************************)
GlobalScope == "GLOBAL"
LocalScope == "LOCAL"
BuiltinScope == "BUILTIN"
FreeScope == "FREE"

Symbol(name, scope, index) == [Name |-> name, Scope |-> scope, Index |-> index]

\* Go's zero value of Symbol: what a failed map lookup yields.
ZeroSymbol == Symbol("", "", 0)

EmptyStore == [x \in {} |-> ZeroSymbol]

\* s.store[name] = sym
StorePut(store, name, sym) ==
    [x \in (DOMAIN store) \cup {name} |-> IF x = name THEN sym ELSE store[x]]

\* NewEnclosedSymbolTable(outer): the table value; outer = 0 stands for nil.
NewEnclosedSymbolTable(outer) ==
    [FreeSymbols |-> <<>>, outer |-> outer, store |-> EmptyStore, numDefs |-> 0]

NewSymbolTable == NewEnclosedSymbolTable(0)

hasOuter(tabs, s) == tabs[s].outer # 0

\* (s *SymbolTable) Define(name): the tables after the call and the symbol returned.
Define(tabs, s, name) ==
    LET sym == Symbol(name, IF hasOuter(tabs, s) THEN LocalScope ELSE GlobalScope,
                      tabs[s].numDefs)
    IN [tabs |-> [tabs EXCEPT ![s].store = StorePut(@, name, sym),
                              ![s].numDefs = @ + 1],
        sym |-> sym]

DefineBuiltinCountsDef(tabs, s, index, name) ==
    LET sym == Symbol(name, BuiltinScope, index)
    IN [tabs |-> [tabs EXCEPT ![s].store = StorePut(@, name, sym),
                              ![s].numDefs = @ + 1],
        sym |-> sym]

\* (s *SymbolTable) DefineBuiltin(index, name)
DefineBuiltin(tabs, s, index, name) ==
    LET sym == Symbol(name, BuiltinScope, index)
    IN [tabs |-> [tabs EXCEPT ![s].store = StorePut(@, name, sym)],
        sym |-> sym]

defineForgetsStore(tabs, s, name, scope, index) ==
    [tabs |-> tabs, sym |-> Symbol(name, scope, index)]

\* (s *SymbolTable) define(name, scope, index)
define(tabs, s, name, scope, index) ==
    LET sym == Symbol(name, scope, index)
    IN [tabs |-> [tabs EXCEPT ![s].store = StorePut(@, name, sym)],
        sym |-> sym]

defineFreeAppendsPromoted(tabs, s, original) ==
    LET idx == Len(tabs[s].FreeSymbols)
        t1 == [tabs EXCEPT ![s].FreeSymbols =
                  Append(@, Symbol(original.Name, FreeScope, idx))]
    IN define(t1, s, original.Name, FreeScope, idx)

\* (s *SymbolTable) defineFree(original)
defineFree(tabs, s, original) ==
    LET t1 == [tabs EXCEPT ![s].FreeSymbols = Append(@, original)]
    IN define(t1, s, original.Name, FreeScope, Len(t1[s].FreeSymbols) - 1)

RECURSIVE ResolveSkipsOwnStore(_, _, _)
ResolveSkipsOwnStore(tabs, s, name) ==
    IF ~hasOuter(tabs, s)
    THEN [tabs |-> tabs,
          sym |-> IF name \in DOMAIN tabs[s].store THEN tabs[s].store[name]
                  ELSE ZeroSymbol,
          exists |-> name \in DOMAIN tabs[s].store]
    ELSE LET r == ResolveSkipsOwnStore(tabs, tabs[s].outer, name)
         IN IF r.exists /\ r.sym.Scope \in {LocalScope, FreeScope}
            THEN LET d == defineFree(r.tabs, s, r.sym)
                 IN [tabs |-> d.tabs, sym |-> d.sym, exists |-> TRUE]
            ELSE IF ~r.exists /\ name \in DOMAIN tabs[s].store
                 THEN [tabs |-> tabs, sym |-> tabs[s].store[name], exists |-> TRUE]
                 ELSE r

\* (s *SymbolTable) Resolve(name): the tables after the call, the symbol and
\* whether it exists.
RECURSIVE Resolve(_, _, _)
Resolve(tabs, s, name) ==
    IF name \in DOMAIN tabs[s].store \/ ~hasOuter(tabs, s)
    THEN [tabs |-> tabs,
          sym |-> IF name \in DOMAIN tabs[s].store THEN tabs[s].store[name]
                  ELSE ZeroSymbol,
          exists |-> name \in DOMAIN tabs[s].store]
    ELSE LET r == Resolve(tabs, tabs[s].outer, name)
         IN IF r.exists /\ r.sym.Scope \in {LocalScope, FreeScope}
            THEN \* an outer local or free variable becomes a free variable here
                 LET d == defineFree(r.tabs, s, r.sym)
                 IN [tabs |-> d.tabs, sym |-> d.sym, exists |-> TRUE]
            ELSE r

(***************************************************************************)
(* The symbol table as a state machine, driven the way the compiler drives *)
(* it: the builtins are defined on the fresh global table, a table is      *)
(* enclosed when a function scope is entered and dropped when it is left,  *)
(* and Define and Resolve are called on the current (innermost) table.     *)
(* symTabs is the chain of live tables, the current one last.              *)
(***************************************************************************)
\* No compile-and-run session: the symbol table is exercised on its own.
NoSession ==
    /\ phase = "none"
    /\ ast = <<>>
    /\ compiler = <<>>
    /\ compileErr = <<>>
    /\ vm = <<>>
    /\ vmErr = <<>>
    /\ calls = <<>>

NoCodec == codec = <<>>
NoRepl == repl = <<>>

SymCall(op, s, name, sym, exists, repeat) ==
    [op |-> op, s |-> s, name |-> name, sym |-> sym, exists |-> exists,
     repeat |-> repeat]

SymInit ==
    /\ symTabs = <<NewSymbolTable>>
    /\ symLast = SymCall("New", 1, "", ZeroSymbol, FALSE, FALSE)
    /\ symDefCount = <<0>>
    /\ NoSession
    /\ NoCodec
    /\ NoRepl

\* enterScope: c.symTab = NewEnclosedSymbolTable(c.symTab)
SymEnter ==
    /\ Len(symTabs) < MaxTables
    /\ symTabs' = Append(symTabs, NewEnclosedSymbolTable(Len(symTabs)))
    /\ symDefCount' = Append(symDefCount, 0)
    /\ symLast' = SymCall("New", Len(symTabs) + 1, "", ZeroSymbol, FALSE, FALSE)
    /\ UNCHANGED notSym

\* leaveScope: c.symTab = c.symTab.outer
SymLeave ==
    /\ Len(symTabs) > 1
    /\ symTabs' = SubSeq(symTabs, 1, Len(symTabs) - 1)
    /\ symDefCount' = SubSeq(symDefCount, 1, Len(symDefCount) - 1)
    /\ symLast' = SymCall("Leave", Len(symTabs) - 1, "", ZeroSymbol, FALSE, FALSE)
    /\ UNCHANGED notSym

SymDefine(name) ==
    LET s == Len(symTabs)
        r == Define(symTabs, s, name)
    IN /\ symTabs[s].numDefs < MaxDefs
       /\ symTabs' = r.tabs
       /\ symLast' = SymCall("Define", s, name, r.sym, TRUE, FALSE)
       /\ symDefCount' = [symDefCount EXCEPT ![s] = @ + 1]
       /\ UNCHANGED notSym

SymDefineBuiltin(index, name) ==
    LET r == DefineBuiltin(symTabs, 1, index, name)
    IN /\ Len(symTabs) = 1
       /\ symTabs' = r.tabs
       /\ symLast' = SymCall("DefineBuiltin", 1, name, r.sym, TRUE, FALSE)
       /\ UNCHANGED <<symDefCount, notSym>>

SymResolve(name) ==
    LET s == Len(symTabs)
        r == Resolve(symTabs, s, name)
    IN /\ symTabs' = r.tabs
       /\ symLast' = SymCall("Resolve", s, name, r.sym, r.exists,
                             symLast.op = "Resolve" /\ symLast.s = s
                             /\ symLast.name = name)
       /\ UNCHANGED <<symDefCount, notSym>>

SymNext ==
    \/ SymEnter
    \/ SymLeave
    \/ \E n \in Names : SymDefine(n)
    \/ \E i \in 0..MaxBuiltinIdx, n \in Names : SymDefineBuiltin(i, n)
    \/ \E n \in Names : SymResolve(n)

SpecSym == SymInit /\ [][SymNext]_vars

(***************************************************************************)
(* Properties of the symbol table.                                         *)
(***************************************************************************)
\* The chain of tables from s outwards: <<s, outer of s, ..., the root>>.
RECURSIVE OuterChain(_, _)
OuterChain(tabs, s) ==
    IF tabs[s].outer = 0 THEN <<s>> ELSE <<s>> \o OuterChain(tabs, tabs[s].outer)

SetMin(S) == CHOOSE x \in S : \A y \in S : x <= y

IsPrefix(p, q) == Len(p) <= Len(q) /\ \A i \in 1..Len(p) : p[i] = q[i]

\* What a Resolve(name) call on table s must return and do, read off the tables
\* as they were before the call (pre), without recursion: the nearest table of
\* the chain that binds the name decides.
ResolveContract(pre, post, s, name, sym, exists) ==
    LET chain == OuterChain(pre, s)
        hits == {i \in 1..Len(chain) : name \in DOMAIN pre[chain[i]].store}
    IN IF hits = {}
       THEN ~exists /\ post = pre
       ELSE LET h == SetMin(hits)
                hit == pre[chain[h]].store[name]
            IN /\ exists
               /\ IF h = 1 \/ hit.Scope \in {GlobalScope, BuiltinScope}
                  THEN sym = hit /\ post = pre
                  ELSE /\ sym = Symbol(name, FreeScope, Len(pre[s].FreeSymbols))
                       /\ Len(post) = Len(pre)
                       /\ \A i \in 1..(h - 1) :
                            LET u == chain[i]
                                fromOuter ==
                                    IF i = h - 1 THEN hit
                                    ELSE Symbol(name, FreeScope,
                                                Len(pre[chain[i + 1]].FreeSymbols))
                            IN /\ post[u].FreeSymbols =
                                      Append(pre[u].FreeSymbols, fromOuter)
                               /\ post[u].store =
                                      StorePut(pre[u].store, name,
                                               Symbol(name, FreeScope,
                                                      Len(pre[u].FreeSymbols)))
                               /\ post[u].numDefs = pre[u].numDefs
                               /\ post[u].outer = pre[u].outer
                       /\ \A u \in 1..Len(pre) :
                            (\A i \in 1..(h - 1) : chain[i] # u) => post[u] = pre[u]

\* C7: Resolve(name) on table T looks in T's own store first and then along the
\* outer chain; a Local or Free hit in the chain is promoted in T and in every
\* table between T and the hit (appended to FreeSymbols as the enclosing table
\* returned it, stored as Free with its position as index); a Global or Builtin
\* hit is returned unchanged and no table changes; a miss returns found = false
\* and no table changes.
C7_ResolvePromotes ==
    [][symLast'.op = "Resolve" =>
           ResolveContract(symTabs, symTabs', symLast'.s, symLast'.name,
                           symLast'.sym, symLast'.exists)]_vars

\* A Resolve on the innermost of four nested tables has just promoted a name
\* through two tables: its own free list ends with the Free symbol the table
\* around it returned, whose free list holds the original Local symbol.
C7_Witness ==
    /\ symLast.op = "Resolve"
    /\ symLast.sym.Scope = FreeScope
    /\ Len(OuterChain(symTabs, symLast.s)) = 4
    /\ LET mid == symTabs[symLast.s].outer
           own == symTabs[symLast.s].FreeSymbols
       IN /\ own # <<>>
          /\ own[Len(own)] = Symbol(symLast.name, FreeScope, 0)
          /\ symTabs[mid].FreeSymbols = <<Symbol(symLast.name, LocalScope, 1)>>

\* The tables that are live before and after a step.
LiveBoth == (1..Len(symTabs)) \cap (1..Len(symTabs'))

NoDuplicateNames(fs) ==
    \A i, j \in 1..Len(fs) : fs[i].Name = fs[j].Name => i = j

\* C8: a Resolve(N) repeated on the same table returns the same symbol as the
\* call before it and changes no table; no table ever holds two free symbols
\* for one name, and no call reorders or removes the free symbols a table holds.
C8_ResolveStable ==
    [][/\ symLast'.repeat =>
              /\ symLast'.sym = symLast.sym
              /\ symLast'.exists = symLast.exists
              /\ symTabs' = symTabs
       /\ \A u \in 1..Len(symTabs') : NoDuplicateNames(symTabs'[u].FreeSymbols)
       /\ \A u \in LiveBoth :
              IsPrefix(symTabs[u].FreeSymbols, symTabs'[u].FreeSymbols)]_vars

\* The repeated call follows a call that promoted the name, in a table that
\* holds two free symbols.
C8_Witness ==
    /\ symLast.repeat
    /\ symLast.sym.Scope = FreeScope
    /\ Len(symTabs[symLast.s].FreeSymbols) = 2

\* C9 as stated: no call changes the symbol bound to a name that was bound
\* before the call.
C9_BindingNeverChanges ==
    [][\A u \in LiveBoth :
           \A n \in DOMAIN symTabs[u].store :
               symTabs'[u].store[n] = symTabs[u].store[n]]_vars

\* C9 as amended: a binding is changed only by a Define or DefineBuiltin of that
\* very name on that very table; Resolve, and Define/DefineBuiltin of another
\* name or on another table, leave it as it is (and never remove it).
C9_BindingChangesOnlyByRedefine ==
    [][\A u \in LiveBoth :
           \A n \in DOMAIN symTabs[u].store :
               /\ n \in DOMAIN symTabs'[u].store
               /\ symTabs'[u].store[n] # symTabs[u].store[n] =>
                      /\ symLast'.op \in {"Define", "DefineBuiltin"}
                      /\ symLast'.s = u
                      /\ symLast'.name = n]_vars

\* A Resolve has just promoted a name in a table that binds the other name too.
C9_Witness ==
    /\ symLast.op = "Resolve"
    /\ symLast.sym.Scope = FreeScope
    /\ ~symLast.repeat
    /\ DOMAIN symTabs[symLast.s].store = Names

\* C10: Define(name) returns the symbol whose index is the number of Define
\* calls made on that table before it and whose scope is Global on a table
\* without outer table and Local otherwise; Resolve of the name on that table
\* then yields this symbol, whatever the outer tables bind the name to.
C10_DefineIndexAndShadowing ==
    symLast.op = "Define" =>
        /\ symLast.sym =
               Symbol(symLast.name,
                      IF symTabs[symLast.s].outer = 0 THEN GlobalScope
                      ELSE LocalScope,
                      symDefCount[symLast.s] - 1)
        /\ LET r == Resolve(symTabs, symLast.s, symLast.name)
           IN r.exists /\ r.sym = symLast.sym /\ r.tabs = symTabs

\* The second Define on an enclosed table, of a name its outer table binds too.
C10_Witness ==
    /\ symLast.op = "Define"
    /\ symLast.sym = Symbol(symLast.name, LocalScope, 1)
    /\ symLast.name \in DOMAIN symTabs[symTabs[symLast.s].outer].store


(***************************************************************************)
(* code/code.go: opcodes, their definitions, Make and the operand readers. *)
(***************************************************************************)
\* The opcodes code.go declares, in declaration order (Opcode = iota).
OpcodeNames ==
    <<"OpConstant", "OpPop", "OpAdd", "OpSub", "OpMul", "OpDiv", "OpTrue",
      "OpFalse", "OpEqual", "OpNotEqual", "OpGreaterThan", "OpMinus", "OpBang">>

\* The opcodes the compiler and the VM refer to that code.go does not
\* declare; they follow the declared ones.
OpcodeNamesRest ==
    <<"OpNil", "OpJumpNotTruthy", "OpJump", "OpSetGlobal", "OpGetGlobal",
      "OpArray", "OpHash", "OpIndex", "OpCall", "OpReturnValue", "OpReturn",
      "OpSetLocal", "OpGetLocal", "OpGetBuiltin", "OpClosure", "OpGetFree">>

\* Their operand widths, in the same order.
OperandWidthsRest ==
    << <<>>, <<2>>, <<2>>, <<2>>, <<2>>, <<2>>, <<2>>, <<>>, <<1>>, <<>>, <<>>,
       <<1>>, <<1>>, <<1>>, <<2, 1>>, <<1>> >>

Op ==
    LET all == OpcodeNames \o OpcodeNamesRest
    IN [n \in {all[i] : i \in DOMAIN all} |->
            (CHOOSE i \in DOMAIN all : all[i] = n) - 1]

\* var definitions = map[Opcode]*Definition{...}: the operand widths.
definitions ==
    [op \in 0..(Len(OpcodeNames) - 1) |->
        IF op = Op.OpConstant THEN <<2>> ELSE <<>>]

definitionsRest ==
    [op \in Len(OpcodeNames)..(Len(OpcodeNames) + Len(OpcodeNamesRest) - 1) |->
        OperandWidthsRest[op - Len(OpcodeNames) + 1]]

\* Lookup: the definition of an opcode, if it has one.
Defined(op) == op \in (DOMAIN definitions) \cup (DOMAIN definitionsRest)

Lookup(op) == IF op \in DOMAIN definitions THEN definitions[op] ELSE definitionsRest[op]

RECURSIVE SeqSum(_)
SeqSum(s) == IF s = <<>> THEN 0 ELSE Head(s) + SeqSum(Tail(s))

RECURSIVE Concat(_)
Concat(ss) == IF ss = <<>> THEN <<>> ELSE Head(ss) \o Concat(Tail(ss))

\* binary.BigEndian.PutUint16(b, uint16(o))
PutUint16(o) == <<(o % 65536) \div 256, o % 256>>

\* make([]byte, n)
ZeroBytes(n) == [i \in 1..n |-> 0]

\* Make indexes def.OperandWidths[i] for every operand: it panics when it is
\* given more operands than the opcode has.
MakePanics(op, operands) == Defined(op) /\ Len(operands) > Len(Lookup(op))

\* Make(op, operands...): nil for an undefined opcode; otherwise a zeroed
\* instruction of full length in which only the two-byte operands that were
\* passed are written.
Make(op, operands) ==
    IF ~Defined(op) THEN <<>>
    ELSE LET widths == Lookup(op)
             field(i) == IF i <= Len(operands) /\ widths[i] = 2
                         THEN PutUint16(operands[i])
                         ELSE ZeroBytes(widths[i])
         IN <<op>> \o Concat([i \in 1..Len(widths) |-> field(i)])

\* ReadUint16(insns[offset:])
ReadUint16(insns, offset) == insns[offset + 1] * 256 + insns[offset + 2]

\* ReadUint8(insns[offset:])
ReadUint8(insns, offset) == insns[offset + 1]

\* ReadOperands(def, insns[offset:]): only two-byte operands are decoded.
ReadOperands(widths, insns, offset) ==
    [operands |-> [i \in 1..Len(widths) |->
                      IF widths[i] = 2
                      THEN ReadUint16(insns, offset + SeqSum(SubSeq(widths, 1, i - 1)))
                      ELSE 0],
     offset |-> SeqSum(widths)]

(***************************************************************************)
(* Objects (package object, as the compiler and the VM construct them).    *)
(***************************************************************************)
\* Integer, Boolean and Nil are read by value only.  The other objects are
\* also compared by pointer (left == right), so they carry the address of
\* their allocation.
Integer(v) == [Type |-> "INTEGER", Value |-> v]
Boolean(v) == [Type |-> "BOOLEAN", Value |-> v]
Nil == [Type |-> "NIL"]
True == Boolean(TRUE)
False == Boolean(FALSE)
String(v, addr) == [Type |-> "STRING", Value |-> v, Addr |-> addr]
Array(elems, addr) == [Type |-> "ARRAY", Elements |-> elems, Addr |-> addr]
Hash(pairs, addr) == [Type |-> "HASH", Pairs |-> pairs, Addr |-> addr]
CompiledFunction(insns, numLocals, numParameters, addr) ==
    [Type |-> "COMPILED_FUNCTION", Instructions |-> insns,
     NumLocals |-> numLocals, NumParameters |-> numParameters, Addr |-> addr]
Closure(fn, free, addr) == [Type |-> "CLOSURE", Fn |-> fn, Free |-> free, Addr |-> addr]
\* Go's nil Object: a stack or globals slot never written.
GoNil == [Type |-> "<nil>"]

\* Addresses: of the n-th object put in the constant pool, of the n-th
\* object the VM allocated, of the main function and closure.
ConstAddr(n) == [pool |-> "const", n |-> n]
HeapAddr(n) == [pool |-> "heap", n |-> n]
MainAddr == [pool |-> "main", n |-> 0]

(***************************************************************************)
(* AST nodes (package ast, as Compile reads them).                         *)
(***************************************************************************)
Program(stmts) == [Type |-> "Program", Statements |-> stmts]
BlockStatement(stmts) == [Type |-> "BlockStatement", Statements |-> stmts]
ExpressionStatement(e) == [Type |-> "ExpressionStatement", Expression |-> e]
LetStatement(name, e) == [Type |-> "LetStatement", Name |-> name, Value |-> e]
ReturnStatement(e) == [Type |-> "ReturnStatement", ReturnValue |-> e]
PrefixExpression(op, r) == [Type |-> "PrefixExpression", Operator |-> op, Right |-> r]
InfixExpression(op, l, r) ==
    [Type |-> "InfixExpression", Operator |-> op, Left |-> l, Right |-> r]
IndexExpression(l, i) == [Type |-> "IndexExpression", Left |-> l, Index |-> i]
IfExpression(cond, cons, alt) ==
    [Type |-> "IfExpression", Condition |-> cond, Consequence |-> cons,
     Alternative |-> alt]
CallExpression(f, args) == [Type |-> "CallExpression", Function |-> f, Arguments |-> args]
Ident(v) == [Type |-> "Ident", Value |-> v]
BooleanLiteral(v) == [Type |-> "Boolean", Value |-> v]
IntegerLiteral(v) == [Type |-> "IntegerLiteral", Value |-> v]
StringLiteral(v) == [Type |-> "StringLiteral", Value |-> v]
ArrayLiteral(elems) == [Type |-> "ArrayLiteral", Elements |-> elems]
\* Pairs is a Go map keyed by the key nodes (pointers): here the list of its
\* <<key, value>> entries in the order a range over the map yields them.
HashLiteral(pairs) == [Type |-> "HashLiteral", Pairs |-> pairs]
FunctionLiteral(params, body) ==
    [Type |-> "FunctionLiteral", Parameters |-> params, Body |-> body]
\* A node Compile has no case for.
NilLiteral == [Type |-> "NilLiteral"]
\* A nil *ast.BlockStatement: an if without else.
NoAlternative == [Type |-> "nil"]

(***************************************************************************)
(* compiler/compiler.go.  A Compiler is a record: consts, tabs (the chain  *)
(* of symbol tables, c.symTab being the last), scopes, scopeIdx, and err,  *)
(* the error the call in progress returns (NoError is nil).                *)
(***************************************************************************)
NoError == [kind |-> "nil", arg |-> ""]
Errorf(kind, arg) == [kind |-> kind, arg |-> arg]

EmittedInstruction(op, pos) == [Opcode |-> op, Position |-> pos]

\* CompilationScope{insns: make(code.Instructions, 0)}
CompilationScope ==
    [insns |-> <<>>, lastInsn |-> EmittedInstruction(0, 0),
     prevInsn |-> EmittedInstruction(0, 0)]

\* NewWithState(symTab, consts)
NewWithState(tabs, consts) ==
    [consts |-> consts, tabs |-> tabs, scopes |-> <<CompilationScope>>,
     scopeIdx |-> 0, err |-> NoError]

\* New(): NewWithState(NewSymbolTable(), no constants)
New == NewWithState(<<NewSymbolTable>>, <<>>)

symTab(c) == Len(c.tabs)
currentScope(c) == c.scopes[c.scopeIdx + 1]
currentInsns(c) == c.scopes[c.scopeIdx + 1].insns

\* A pool that grows at the front.
addConstantInFront(c, obj) == [c EXCEPT !.consts = <<obj>> \o @]

addConstant(c, obj) == [c EXCEPT !.consts = Append(@, obj)]

addInstruction(c, insn) == [c EXCEPT !.scopes[c.scopeIdx + 1].insns = @ \o insn]

setLastInstruction(c, op, pos) ==
    [c EXCEPT !.scopes[c.scopeIdx + 1].prevInsn = currentScope(c).lastInsn,
              !.scopes[c.scopeIdx + 1].lastInsn = EmittedInstruction(op, pos)]

\* emit: the instruction starts at the current length of the scope.
emit(c, op, operands) ==
    setLastInstruction(addInstruction(c, Make(op, operands)), op,
                       Len(currentInsns(c)))

lastInstructionIs(c, op) ==
    Len(currentScope(c).insns) > 0 /\ currentScope(c).lastInsn.Opcode = op

removeLastInstruction(c) ==
    [c EXCEPT !.scopes[c.scopeIdx + 1].insns =
                  SubSeq(@, 1, currentScope(c).lastInsn.Position),
              !.scopes[c.scopeIdx + 1].lastInsn = currentScope(c).prevInsn]

\* copy(insns[pos:pos+len(newInsn)], newInsn)
replaceInstruction(c, pos, newInsn) ==
    [c EXCEPT !.scopes[c.scopeIdx + 1].insns =
        [i \in 1..Len(@) |->
            IF pos < i /\ i <= pos + Len(newInsn) THEN newInsn[i - pos] ELSE @[i]]]

changeOperand(c, opPos, operand) ==
    replaceInstruction(c, opPos, Make(currentInsns(c)[opPos + 1], <<operand>>))

replaceLastInsnWithReturn(c) ==
    LET c1 == replaceInstruction(c, currentScope(c).lastInsn.Position,
                                 Make(Op.OpReturnValue, <<>>))
    IN [c1 EXCEPT !.scopes[c.scopeIdx + 1].lastInsn.Opcode = Op.OpReturnValue]

enterScope(c) ==
    [c EXCEPT !.scopes = Append(@, CompilationScope),
              !.scopeIdx = @ + 1,
              !.tabs = Append(@, NewEnclosedSymbolTable(Len(@)))]

\* leaveScope: the caller reads currentInsns before; c.symTab = c.symTab.outer
leaveScope(c) ==
    [c EXCEPT !.scopes = SubSeq(@, 1, Len(@) - 1),
              !.scopeIdx = @ - 1,
              !.tabs = SubSeq(@, 1, Len(@) - 1)]

\* Bytecode()
Bytecode(c) == [Instructions |-> currentInsns(c), Constants |-> c.consts]

Failed(c) == c.err # NoError

InfixOpcodes ==
    [x \in {"+", "-", "*", "/", ">", "==", "!="} |->
        CASE x = "+" -> Op.OpAdd
          [] x = "-" -> Op.OpSub
          [] x = "*" -> Op.OpMul
          [] x = "/" -> Op.OpDiv
          [] x = ">" -> Op.OpGreaterThan
          [] x = "==" -> Op.OpEqual
          [] x = "!=" -> Op.OpNotEqual]

\* strconv.Itoa for a natural number, as the bytes of the string.
RECURSIVE Itoa(_)
Itoa(v) == IF v < 10 THEN <<48 + v>> ELSE Itoa(v \div 10) \o <<48 + (v % 10)>>

\* (node).String() of a literal, as the bytes of the string: the digits of an
\* integer literal, true or false for a boolean literal.
NodeString(node) ==
    IF node.Type = "IntegerLiteral" THEN Itoa(node.Value)
    ELSE IF node.Type = "Boolean"
    THEN IF node.Value THEN <<116, 114, 117, 101>> ELSE <<102, 97, 108, 115, 101>>
    ELSE <<>>

\* a < b on Go strings: bytewise lexicographic order.
RECURSIVE StringLess(_, _)
StringLess(a, b) ==
    IF b = <<>> THEN FALSE
    ELSE IF a = <<>> THEN TRUE
    ELSE IF Head(a) # Head(b) THEN Head(a) < Head(b)
    ELSE StringLess(Tail(a), Tail(b))

\* sort.Slice(keys, less) on a short slice is an insertion sort: every entry
\* is moved down past the entries that are greater; entries that are not less
\* than one another keep the order they came in.
RECURSIVE sortSlice(_)
sortSlice(pairs) ==
    IF pairs = <<>> THEN <<>>
    ELSE LET sorted == sortSlice(SubSeq(pairs, 1, Len(pairs) - 1))
             last == pairs[Len(pairs)]
             stay == {i \in DOMAIN sorted :
                        \A j \in i..Len(sorted) :
                            StringLess(NodeString(last[1]), NodeString(sorted[j][1]))}
             pos == IF stay = {} THEN Len(sorted) + 1 ELSE SetMin(stay)
         IN SubSeq(sorted, 1, pos - 1) \o <<last>> \o SubSeq(sorted, pos, Len(sorted))

RECURSIVE Compile(_, _)
RECURSIVE CompileEach(_, _)

\* for _, s := range nodes { if err := c.Compile(s); err != nil { return err } }
CompileEach(c, nodes) ==
    IF nodes = <<>> THEN c
    ELSE LET c1 == Compile(c, Head(nodes))
         IN IF Failed(c1) THEN c1 ELSE CompileEach(c1, Tail(nodes))

\* case *ast.LetStatement: the value is compiled before the name is defined.
CompileLet(c1, name) ==
    LET d == Define(c1.tabs, symTab(c1), name)
        c2 == [c1 EXCEPT !.tabs = d.tabs]
    IN IF d.sym.Scope = GlobalScope
       THEN emit(c2, Op.OpSetGlobal, <<d.sym.Index>>)
       ELSE emit(c2, Op.OpSetLocal, <<d.sym.Index>>)

\* case *ast.Ident
CompileIdent(c, name) ==
    LET r == Resolve(c.tabs, symTab(c), name)
        c1 == [c EXCEPT !.tabs = r.tabs]
    IN IF ~r.exists THEN [c EXCEPT !.err = Errorf("undefined variable", name)]
       ELSE IF r.sym.Scope = GlobalScope
            THEN emit(c1, Op.OpGetGlobal, <<r.sym.Index>>)
            ELSE emit(c1, Op.OpGetLocal, <<r.sym.Index>>)

\* A conditional whose JumpNotTruthy is patched to the offset of the Jump that
\* ends the consequence, not to the offset after it.
CompileIfBranchesJumpToJump(c1, jumpNotTruthyPos, node) ==
    LET c2 == Compile(c1, node.Consequence)
        c3 == IF lastInstructionIs(c2, Op.OpPop) THEN removeLastInstruction(c2) ELSE c2
        jumpPos == Len(currentInsns(c3))
        c4 == emit(c3, Op.OpJump, <<9999>>)
        c5 == changeOperand(c4, jumpNotTruthyPos, jumpPos)
        c6 == IF node.Alternative = NoAlternative
              THEN emit(c5, Op.OpNil, <<>>)
              ELSE Compile(c5, node.Alternative)
        c7 == IF node.Alternative # NoAlternative /\ lastInstructionIs(c6, Op.OpPop)
              THEN removeLastInstruction(c6) ELSE c6
    IN IF Failed(c2) THEN c2
       ELSE IF Failed(c6) THEN c6
       ELSE changeOperand(c7, jumpPos, Len(currentInsns(c7)))

\* case *ast.IfExpression, after the condition: c1 is the compiler with
\* OpJumpNotTruthy 9999 emitted at jumpNotTruthyPos.
CompileIfBranches(c1, jumpNotTruthyPos, node) ==
    LET c2 == Compile(c1, node.Consequence)
        c3 == IF lastInstructionIs(c2, Op.OpPop) THEN removeLastInstruction(c2) ELSE c2
        jumpPos == Len(currentInsns(c3))
        c4 == emit(c3, Op.OpJump, <<9999>>)
        c5 == changeOperand(c4, jumpNotTruthyPos, Len(currentInsns(c4)))
        c6 == IF node.Alternative = NoAlternative
              THEN emit(c5, Op.OpNil, <<>>)
              ELSE Compile(c5, node.Alternative)
        c7 == IF node.Alternative # NoAlternative /\ lastInstructionIs(c6, Op.OpPop)
              THEN removeLastInstruction(c6) ELSE c6
    IN IF Failed(c2) THEN c2
       ELSE IF Failed(c6) THEN c6
       ELSE changeOperand(c7, jumpPos, Len(currentInsns(c7)))

\* case *ast.FunctionLiteral, after the body: c2 is the compiler in the
\* function's scope.
CompileFunctionEnd(c2) ==
    LET c3 == IF lastInstructionIs(c2, Op.OpPop) THEN replaceLastInsnWithReturn(c2) ELSE c2
        c4 == IF ~lastInstructionIs(c3, Op.OpReturnValue)
              THEN emit(c3, Op.OpReturn, <<>>) ELSE c3
        numLocals == c4.tabs[symTab(c4)].numDefs
        insns == currentInsns(c4)
        c5 == leaveScope(c4)
        compiledFn == CompiledFunction(insns, numLocals, 0, ConstAddr(Len(c5.consts)))
    IN emit(addConstant(c5, compiledFn), Op.OpConstant, <<Len(c5.consts)>>)

\* (c *Compiler) Compile(node): the compiler after the call; its err is the
\* error returned.
Compile(c, node) ==
    CASE node.Type \in {"Program", "BlockStatement"} ->
            CompileEach(c, node.Statements)
      [] node.Type = "ExpressionStatement" ->
            LET c1 == Compile(c, node.Expression)
            IN IF Failed(c1) THEN c1 ELSE emit(c1, Op.OpPop, <<>>)
      [] node.Type = "LetStatement" ->
            LET c1 == Compile(c, node.Value)
            IN IF Failed(c1) THEN c1 ELSE CompileLet(c1, node.Name)
      [] node.Type = "ReturnStatement" ->
            LET c1 == Compile(c, node.ReturnValue)
            IN IF Failed(c1) THEN c1 ELSE emit(c1, Op.OpReturnValue, <<>>)
      [] node.Type = "PrefixExpression" ->
            LET c1 == Compile(c, node.Right)
            IN IF Failed(c1) THEN [c1 EXCEPT !.err = NoError]   \* return nil
               ELSE IF node.Operator = "!" THEN emit(c1, Op.OpBang, <<>>)
               ELSE IF node.Operator = "-" THEN emit(c1, Op.OpMinus, <<>>)
               ELSE [c1 EXCEPT !.err = Errorf("unknown unary operator", node.Operator)]
      [] node.Type = "InfixExpression" ->
            LET lt == node.Operator = "<"
                c1 == Compile(c, IF lt THEN node.Right ELSE node.Left)
                c2 == Compile(c1, IF lt THEN node.Left ELSE node.Right)
            IN IF Failed(c1) THEN c1
               ELSE IF Failed(c2) THEN c2
               ELSE IF lt THEN emit(c2, Op.OpGreaterThan, <<>>)
               ELSE IF node.Operator \in DOMAIN InfixOpcodes
                    THEN emit(c2, InfixOpcodes[node.Operator], <<>>)
               ELSE [c2 EXCEPT !.err = Errorf("unknown operator", node.Operator)]
      [] node.Type = "IndexExpression" ->
            LET c1 == Compile(c, node.Left)
                c2 == Compile(c1, node.Index)
            IN IF Failed(c1) THEN c1
               ELSE IF Failed(c2) THEN c2
               ELSE emit(c2, Op.OpIndex, <<>>)
      [] node.Type = "IfExpression" ->
            LET c1 == Compile(c, node.Condition)
            IN IF Failed(c1) THEN c1
               ELSE CompileIfBranches(emit(c1, Op.OpJumpNotTruthy, <<9999>>),
                                      Len(currentInsns(c1)), node)
      [] node.Type = "CallExpression" ->
            LET c1 == Compile(c, node.Function)
            IN IF Failed(c1) THEN c1 ELSE emit(c1, Op.OpCall, <<>>)
      [] node.Type = "Ident" -> CompileIdent(c, node.Value)
      [] node.Type = "Boolean" ->
            IF node.Value THEN emit(c, Op.OpTrue, <<>>) ELSE emit(c, Op.OpFalse, <<>>)
      [] node.Type = "IntegerLiteral" ->
            emit(addConstant(c, Integer(node.Value)), Op.OpConstant, <<Len(c.consts)>>)
      [] node.Type = "StringLiteral" ->
            emit(addConstant(c, String(node.Value, ConstAddr(Len(c.consts)))), Op.OpConstant, <<Len(c.consts)>>)
      [] node.Type = "ArrayLiteral" ->
            LET c1 == CompileEach(c, node.Elements)
            IN IF Failed(c1) THEN c1 ELSE emit(c1, Op.OpArray, <<Len(node.Elements)>>)
      [] node.Type = "HashLiteral" ->
            LET keys == sortSlice(node.Pairs)
                c1 == CompileEach(c, Concat([i \in DOMAIN keys |-> keys[i]]))
            IN IF Failed(c1) THEN c1
               ELSE emit(c1, Op.OpHash, <<Len(node.Pairs) * 2>>)
      [] node.Type = "FunctionLiteral" ->
            LET c2 == Compile(enterScope(c), node.Body)
            IN IF Failed(c2) THEN c2 ELSE CompileFunctionEnd(c2)
      [] OTHER -> c

(***************************************************************************)
(* vm/vm.go.  A VM is a record: consts, stack, sp, globals, frames,        *)
(* framesIdx, and allocs, the number of objects it has allocated.  stack   *)
(* holds the slots written so far (slot i is stack[i + 1]); the slots      *)
(* above are nil.  globals maps the indices written to their values.       *)
(* frames holds the live frames, frames[framesIdx] being the current one.  *)
(* A step yields the VM and the error returned; a Go panic (index out of   *)
(* range, nil dereference, division by zero) is the error kind "panic".    *)
(***************************************************************************)
StackSize == 2048
MaxFrames == 1024

Result(m, e) == [vm |-> m, err |-> e]
Ok(m) == Result(m, NoError)
Panic(m, why) == Result(m, Errorf("panic", why))
IsError(r) == r.err # NoError

\* NewFrame(cl, bp)
NewFrame(cl, bp) == [cl |-> cl, ip |-> -1, bp |-> bp]

\* (f *Frame) Instructions()
Instructions(f) == f.cl.Fn.Instructions

\* make([]object.Object, GlobalSize): no slot written.
NoGlobals == [i \in {} |-> GoNil]

\* A VM that starts from a store of its own.
NewWithClearedStore(bytecode, globals) ==
    [consts |-> bytecode.Constants,
     stack |-> <<>>,
     sp |-> 0,
     globals |-> NoGlobals,
     frames |-> <<NewFrame(Closure(CompiledFunction(bytecode.Instructions, 0, 0, MainAddr),
                                   <<>>, MainAddr), 0)>>,
     framesIdx |-> 1,
     allocs |-> 0]

\* NewWithGlobalStore(bytecode, globals)
NewWithGlobalStore(bytecode, globals) ==
    [consts |-> bytecode.Constants,
     stack |-> <<>>,
     sp |-> 0,
     globals |-> globals,
     frames |-> <<NewFrame(Closure(CompiledFunction(bytecode.Instructions, 0, 0, MainAddr),
                                   <<>>, MainAddr), 0)>>,
     framesIdx |-> 1,
     allocs |-> 0]

currentFrame(m) == m.frames[m.framesIdx]

InStack(i) == 0 <= i /\ i < StackSize

\* vm.stack[i]
StackAt(m, i) == IF i < Len(m.stack) THEN m.stack[i + 1] ELSE GoNil

\* vm.stack[i] = obj
StackPut(stack, i, obj) ==
    IF i < Len(stack) THEN [stack EXCEPT ![i + 1] = obj]
    ELSE stack \o [k \in 1..(i - Len(stack)) |-> GoNil] \o <<obj>>

\* LastPoppedStackElem()
LastPoppedStackElem(m) == StackAt(m, m.sp)

\* A push that accepts a full stack.
pushOnFullStack(m, obj) ==
    IF m.sp > StackSize THEN Result(m, Errorf("stack overflow", ""))
    ELSE IF m.sp < 0 THEN Panic(m, "index out of range")
    ELSE Ok([m EXCEPT !.stack = StackPut(@, m.sp, obj), !.sp = @ + 1])

\* push(obj)
push(m, obj) ==
    IF m.sp >= StackSize THEN Result(m, Errorf("stack overflow", ""))
    ELSE IF m.sp < 0 THEN Panic(m, "index out of range")
    ELSE Ok([m EXCEPT !.stack = StackPut(@, m.sp, obj), !.sp = @ + 1])

\* A pop that returns the top of the stack and leaves the stack pointer.
popKeepsSp(m) ==
    IF m.sp = 0 THEN [vm |-> m, obj |-> GoNil]
    ELSE [vm |-> m, obj |-> StackAt(m, m.sp - 1)]

\* pop(): the VM after the call and the object returned (nil on an empty stack).
pop(m) ==
    IF m.sp = 0 THEN [vm |-> m, obj |-> GoNil]
    ELSE [vm |-> [m EXCEPT !.sp = @ - 1], obj |-> StackAt(m, m.sp - 1)]

\* pushFrame; the frames array has MaxFrames slots.
pushFrame(m, f) ==
    [m EXCEPT !.frames = Append(SubSeq(@, 1, m.framesIdx), f), !.framesIdx = @ + 1]

\* popFrame: the frame returned is frames[framesIdx] before the call.
popFrame(m) ==
    [m EXCEPT !.frames = SubSeq(@, 1, m.framesIdx - 1), !.framesIdx = @ - 1]

nativeBoolToBooleanObject(input) == IF input THEN True ELSE False

\* A truthiness in which the integer 0 is falsy.
isTruthyButZero(obj) ==
    IF obj.Type = "BOOLEAN" THEN obj.Value
    ELSE IF obj.Type = "NIL" THEN FALSE
    ELSE IF obj.Type = "INTEGER" THEN obj.Value # 0
    ELSE TRUE

isTruthy(obj) ==
    IF obj.Type = "BOOLEAN" THEN obj.Value
    ELSE IF obj.Type = "NIL" THEN FALSE
    ELSE TRUE

\* left == right on objects: the same pointer.
SameObject(left, right) == left.Type = right.Type /\ left = right

\* Go's integer division truncates toward zero.
Quo(a, b) ==
    LET abs(x) == IF x < 0 THEN -x ELSE x
        q == abs(a) \div abs(b)
    IN IF (a < 0) = (b < 0) THEN q ELSE -q

\* vm.stack[startIdx:endIdx] copied out
StackSlice(m, startIdx, endIdx) ==
    [k \in 1..(endIdx - startIdx) |-> StackAt(m, startIdx + k - 1)]

\* case code.OpArray
execArray(m, numElems) ==
    LET startIdx == m.sp - numElems
        arr == Array(StackSlice(m, startIdx, m.sp), HeapAddr(m.allocs))
    IN IF numElems > 0 /\ (startIdx < 0 \/ m.sp > StackSize)
       THEN Panic(m, "index out of range")
       ELSE push([m EXCEPT !.sp = startIdx, !.allocs = @ + 1], arr)

\* key.(object.Hashable)
Hashable(obj) == obj.Type \in {"INTEGER", "BOOLEAN", "STRING"}
HashKey(obj) == [Type |-> obj.Type, Value |-> obj.Value]
SameKey(k1, k2) == k1.Type = k2.Type /\ k1.Value = k2.Value

\* m[hashKey] = pair on a map kept as a list of (HashKey, Key, Value)
HashPut(pairs, key, val) ==
    LET entry == [HashKey |-> HashKey(key), Key |-> key, Value |-> val]
        hit == {k \in DOMAIN pairs : SameKey(pairs[k].HashKey, entry.HashKey)}
    IN IF hit = {} THEN Append(pairs, entry)
       ELSE [k \in DOMAIN pairs |-> IF k \in hit THEN entry ELSE pairs[k]]

RECURSIVE buildHash(_, _, _, _)
\* buildHash(startIdx, endIdx): the pairs built from stack[i:endIdx] onto
\* pairs, or the error of the first key that is not hashable.
buildHash(m, i, endIdx, pairs) ==
    IF i >= endIdx THEN [pairs |-> pairs, err |-> NoError]
    ELSE IF ~InStack(i) \/ ~InStack(i + 1)
         THEN [pairs |-> pairs, err |-> Errorf("panic", "index out of range")]
    ELSE LET key == StackAt(m, i)
         IN IF key = GoNil
            THEN [pairs |-> pairs, err |-> Errorf("panic", "nil dereference")]
            ELSE IF ~Hashable(key)
            THEN [pairs |-> pairs, err |-> Errorf("unusable as hash key", key.Type)]
            ELSE buildHash(m, i + 2, endIdx, HashPut(pairs, key, StackAt(m, i + 1)))

\* case code.OpHash
execHash(m, numElems) ==
    LET startIdx == m.sp - numElems
        h == buildHash(m, startIdx, m.sp, <<>>)
    IN IF h.err # NoError THEN Result(m, h.err)
       ELSE push([m EXCEPT !.sp = startIdx, !.allocs = @ + 1],
                 Hash(h.pairs, HeapAddr(m.allocs)))

execBangOp(m) ==
    LET p == pop(m)
    IN IF p.obj = True THEN push(p.vm, False)
       ELSE IF p.obj = False \/ p.obj = Nil THEN push(p.vm, True)
       ELSE push(p.vm, False)

execMinusOp(m) ==
    LET p == pop(m)
    IN IF p.obj = GoNil THEN Panic(p.vm, "nil dereference")
       ELSE IF p.obj.Type # "INTEGER"
       THEN Result(p.vm, Errorf("unsupported type for negation", p.obj.Type))
       ELSE push(p.vm, Integer(-p.obj.Value))

\* The model keeps integers far from the ends of int64, where Go wraps.
execBinaryIntOp(m, op, left, right) ==
    IF op = Op.OpAdd THEN push(m, Integer(left.Value + right.Value))
    ELSE IF op = Op.OpSub THEN push(m, Integer(left.Value - right.Value))
    ELSE IF op = Op.OpMul THEN push(m, Integer(left.Value * right.Value))
    ELSE IF op = Op.OpDiv
         THEN IF right.Value = 0 THEN Panic(m, "integer divide by zero")
              ELSE push(m, Integer(Quo(left.Value, right.Value)))
    ELSE Result(m, Errorf("unknown integer operator", op))

execBinaryStrOp(m, op, left, right) ==
    IF op # Op.OpAdd THEN Result(m, Errorf("unknown string operator", op))
    ELSE push([m EXCEPT !.allocs = @ + 1],
              String(left.Value \o right.Value, HeapAddr(m.allocs)))

execBinaryOp(m, op) ==
    LET r == pop(m)
        l == pop(r.vm)
    IN IF l.obj = GoNil \/ r.obj = GoNil THEN Panic(l.vm, "nil dereference")
       ELSE IF l.obj.Type = "INTEGER" /\ r.obj.Type = "INTEGER"
       THEN execBinaryIntOp(l.vm, op, l.obj, r.obj)
       ELSE IF l.obj.Type = "STRING" /\ r.obj.Type = "STRING"
       THEN execBinaryStrOp(l.vm, op, l.obj, r.obj)
       ELSE Result(l.vm, Errorf("unsupported types for binary operation",
                                <<l.obj.Type, r.obj.Type>>))

\* A comparison of integers in which GreaterThan is greater-or-equal.
execIntComparisonOrEqual(m, op, left, right) ==
    IF op = Op.OpEqual THEN push(m, nativeBoolToBooleanObject(left.Value = right.Value))
    ELSE IF op = Op.OpNotEqual
    THEN push(m, nativeBoolToBooleanObject(left.Value # right.Value))
    ELSE IF op = Op.OpGreaterThan
    THEN push(m, nativeBoolToBooleanObject(left.Value >= right.Value))
    ELSE Result(m, Errorf("unknown operator for integers", op))

execIntComparison(m, op, left, right) ==
    IF op = Op.OpEqual THEN push(m, nativeBoolToBooleanObject(left.Value = right.Value))
    ELSE IF op = Op.OpNotEqual
    THEN push(m, nativeBoolToBooleanObject(left.Value # right.Value))
    ELSE IF op = Op.OpGreaterThan
    THEN push(m, nativeBoolToBooleanObject(left.Value > right.Value))
    ELSE Result(m, Errorf("unknown operator for integers", op))

execComparison(m, op) ==
    LET r == pop(m)
        l == pop(r.vm)
    IN IF l.obj = GoNil \/ r.obj = GoNil THEN Panic(l.vm, "nil dereference")
       ELSE IF l.obj.Type = "INTEGER" /\ r.obj.Type = "INTEGER"
       THEN execIntComparison(l.vm, op, l.obj, r.obj)
       ELSE IF op = Op.OpEqual
       THEN push(l.vm, nativeBoolToBooleanObject(SameObject(l.obj, r.obj)))
       ELSE IF op = Op.OpNotEqual
       THEN push(l.vm, nativeBoolToBooleanObject(~SameObject(l.obj, r.obj)))
       ELSE Result(l.vm, Errorf("unknown operator", <<op, l.obj.Type, r.obj.Type>>))

\* An array index that takes 0 for out of range.
execArrayIndexFromOne(m, array, idx) ==
    IF idx.Value < 1 \/ idx.Value > Len(array.Elements) - 1 THEN push(m, Nil)
    ELSE push(m, array.Elements[idx.Value + 1])

execArrayIndex(m, array, idx) ==
    IF idx.Value < 0 \/ idx.Value > Len(array.Elements) - 1 THEN push(m, Nil)
    ELSE push(m, array.Elements[idx.Value + 1])

execHashIndex(m, hash, idx) ==
    IF idx = GoNil THEN Panic(m, "nil dereference")
    ELSE IF ~Hashable(idx) THEN Result(m, Errorf("unusable as hash key", idx.Type))
    ELSE LET hit == {k \in DOMAIN hash.Pairs : SameKey(hash.Pairs[k].HashKey, HashKey(idx))}
         IN IF hit = {} THEN push(m, Nil)
            ELSE push(m, hash.Pairs[CHOOSE k \in hit : TRUE].Value)

\* case code.OpIndex
execIndexExpr(m) ==
    LET i == pop(m)
        l == pop(i.vm)
    IN IF l.obj = GoNil THEN Panic(l.vm, "nil dereference")
       ELSE IF l.obj.Type = "ARRAY" /\ i.obj = GoNil THEN Panic(l.vm, "nil dereference")
       ELSE IF l.obj.Type = "ARRAY" /\ i.obj.Type = "INTEGER"
       THEN execArrayIndex(l.vm, l.obj, i.obj)
       ELSE IF l.obj.Type = "HASH" THEN execHashIndex(l.vm, l.obj, i.obj)
       ELSE Result(l.vm, Errorf("index operator not supported", l.obj.Type))

(***************************************************************************)
(* The built-in functions (object.Builtins), by their documented           *)
(* behaviour: the registry order and what each returns.                    *)
(***************************************************************************)
BuiltinNames == <<"len", "puts", "first", "last", "rest", "push">>
Builtin(name) == [Type |-> "BUILTIN", Name |-> name]
ErrorObject(msg) == [Type |-> "ERROR", Message |-> msg]

\* builtin.Fn(args...): the object returned (GoNil when it returns none);
\* addr is the address of the object it allocates, if it allocates one.
BuiltinFn(name, args, addr) ==
    LET isArray == Len(args) >= 1 /\ args[1].Type = "ARRAY"
        elems == args[1].Elements
    IN CASE name = "puts" -> GoNil
         [] name = "len" /\ Len(args) = 1 /\ args[1].Type = "STRING" ->
                Integer(Len(args[1].Value))
         [] name = "len" /\ Len(args) = 1 /\ isArray -> Integer(Len(elems))
         [] name = "first" /\ Len(args) = 1 /\ isArray ->
                IF elems = <<>> THEN GoNil ELSE elems[1]
         [] name = "last" /\ Len(args) = 1 /\ isArray ->
                IF elems = <<>> THEN GoNil ELSE elems[Len(elems)]
         [] name = "rest" /\ Len(args) = 1 /\ isArray ->
                IF elems = <<>> THEN GoNil ELSE Array(Tail(elems), addr)
         [] name = "push" /\ Len(args) = 2 /\ isArray ->
                Array(Append(elems, args[2]), addr)
         [] OTHER -> ErrorObject(name)

\* A call that does not compare the number of arguments with the parameters.
callClosureAnyArgs(m, cl, numArgs) ==
    IF m.framesIdx >= MaxFrames THEN Panic(m, "index out of range")
    ELSE LET basePtr == m.sp - numArgs
         IN Ok([pushFrame(m, NewFrame(cl, basePtr)) EXCEPT
                    !.sp = basePtr + cl.Fn.NumLocals])

\* callClosure(cl, numArgs)
callClosure(m, cl, numArgs) ==
    IF numArgs # cl.Fn.NumParameters
    THEN Result(m, Errorf("wrong number of arguments", <<cl.Fn.NumParameters, numArgs>>))
    ELSE IF m.framesIdx >= MaxFrames THEN Panic(m, "index out of range")
    ELSE LET basePtr == m.sp - numArgs
         IN Ok([pushFrame(m, NewFrame(cl, basePtr)) EXCEPT
                    !.sp = basePtr + cl.Fn.NumLocals])

callBuiltin(m, builtin, numArgs) ==
    LET args == StackSlice(m, m.sp - numArgs, m.sp)
        result == BuiltinFn(builtin.Name, args, HeapAddr(m.allocs))
        m1 == [m EXCEPT !.sp = @ - (numArgs + 1), !.allocs = @ + 1]
    IN IF result = GoNil THEN push(m1, Nil) ELSE push(m1, result)

execCall(m, numArgs) ==
    LET callee == StackAt(m, m.sp - 1 - numArgs)
    IN IF ~InStack(m.sp - 1 - numArgs) THEN Panic(m, "index out of range")
       ELSE IF callee.Type = "CLOSURE" THEN callClosure(m, callee, numArgs)
       ELSE IF callee.Type = "BUILTIN" THEN callBuiltin(m, callee, numArgs)
       ELSE IF callee = GoNil THEN Panic(m, "nil dereference")
       ELSE Result(m, Errorf("calling non-function and non-built-in", callee.Type))

pushClosure(m, constIdx, numFree) ==
    IF constIdx >= Len(m.consts) THEN Panic(m, "index out of range")
    ELSE IF m.consts[constIdx + 1].Type # "COMPILED_FUNCTION"
    THEN Result(m, Errorf("not a function", constIdx))
    ELSE IF m.sp - numFree < 0 \/ m.sp > StackSize THEN Panic(m, "slice bounds out of range")
    ELSE push([m EXCEPT !.sp = @ - numFree, !.allocs = @ + 1],
              Closure(m.consts[constIdx + 1], StackSlice(m, m.sp - numFree, m.sp),
                      HeapAddr(m.allocs)))

\* A return that leaves the called function object on the stack.
execReturnKeepsCallee(m, withValue) ==
    LET p == IF withValue THEN pop(m) ELSE [vm |-> m, obj |-> Nil]
        frame == currentFrame(p.vm)
    IN push([popFrame(p.vm) EXCEPT !.sp = frame.bp], p.obj)

\* case code.OpReturnValue (withValue) and case code.OpReturn
execReturn(m, withValue) ==
    LET p == IF withValue THEN pop(m) ELSE [vm |-> m, obj |-> Nil]
        frame == currentFrame(p.vm)
    IN push([popFrame(p.vm) EXCEPT !.sp = frame.bp - 1], p.obj)

\* frame.ip = v, on the frame that is current when the iteration starts
SetIp(m, v) == [m EXCEPT !.frames[m.framesIdx].ip = v]

\* The operand bytes insns[ip+1 : ip+1+n] exist (reading past the end panics).
HasOperand(insns, ip, n) == ip + n < Len(insns)

\* One iteration of the loop of Run, entered with frame.ip < len(insns) - 1.
RunStep(m) ==
    LET frame == currentFrame(m)
        ip == frame.ip + 1
        insns == Instructions(frame)
        op == insns[ip + 1]
        m1 == SetIp(m, ip)
        u16 == ReadUint16(insns, ip + 1)
        u8 == ReadUint8(insns, ip + 1)
        m2 == SetIp(m, ip + 2)
        m3 == SetIp(m, ip + 1)
        width == IF ~Defined(op) THEN 0 ELSE SeqSum(Lookup(op))
    IN IF op \in {Op.OpConstant, Op.OpArray, Op.OpHash, Op.OpJump, Op.OpJumpNotTruthy,
                  Op.OpSetGlobal, Op.OpGetGlobal, Op.OpCall, Op.OpSetLocal,
                  Op.OpGetLocal, Op.OpGetBuiltin, Op.OpClosure, Op.OpGetFree}
          /\ ~HasOperand(insns, ip, width)
       THEN Panic(m1, "index out of range")
       ELSE
       CASE op = Op.OpConstant ->
                IF u16 >= Len(m.consts) THEN Panic(m2, "index out of range")
                ELSE push(m2, m.consts[u16 + 1])
         [] op = Op.OpTrue -> push(m1, True)
         [] op = Op.OpFalse -> push(m1, False)
         [] op = Op.OpNil -> push(m1, Nil)
         [] op = Op.OpArray -> execArray(m2, u16)
         [] op = Op.OpHash -> execHash(m2, u16)
         [] op = Op.OpIndex -> execIndexExpr(m1)
         [] op = Op.OpPop -> Ok(pop(m1).vm)
         [] op = Op.OpBang -> execBangOp(m1)
         [] op = Op.OpMinus -> execMinusOp(m1)
         [] op \in {Op.OpAdd, Op.OpSub, Op.OpMul, Op.OpDiv} -> execBinaryOp(m1, op)
         [] op \in {Op.OpEqual, Op.OpNotEqual, Op.OpGreaterThan} -> execComparison(m1, op)
         [] op = Op.OpJump -> Ok(SetIp(m, u16 - 1))
         [] op = Op.OpJumpNotTruthy ->
                LET p == pop(m2)
                IN IF ~isTruthy(p.obj) THEN Ok(SetIp(p.vm, u16 - 1)) ELSE Ok(p.vm)
         [] op = Op.OpSetGlobal ->
                LET p == pop(m2)
                IN Ok([p.vm EXCEPT !.globals =
                          [i \in (DOMAIN @) \cup {u16} |->
                              IF i = u16 THEN p.obj ELSE @[i]]])
         [] op = Op.OpGetGlobal ->
                push(m2, IF u16 \in DOMAIN m.globals THEN m.globals[u16] ELSE GoNil)
         [] op = Op.OpCall -> execCall(m3, u8)
         [] op = Op.OpReturnValue -> execReturn(m1, TRUE)
         [] op = Op.OpReturn -> execReturn(m1, FALSE)
         [] op = Op.OpSetLocal ->
                LET p == pop(m3)
                IN IF ~InStack(frame.bp + u8) THEN Panic(p.vm, "index out of range")
                   ELSE Ok([p.vm EXCEPT !.stack = StackPut(@, frame.bp + u8, p.obj)])
         [] op = Op.OpGetLocal ->
                IF ~InStack(frame.bp + u8) THEN Panic(m3, "index out of range")
                ELSE push(m3, StackAt(m, frame.bp + u8))
         [] op = Op.OpGetBuiltin ->
                IF u8 >= Len(BuiltinNames) THEN Panic(m3, "index out of range")
                ELSE push(m3, Builtin(BuiltinNames[u8 + 1]))
         [] op = Op.OpClosure ->
                pushClosure(SetIp(m, ip + 3), u16, ReadUint8(insns, ip + 3))
         [] op = Op.OpGetFree ->
                IF u8 >= Len(frame.cl.Free) THEN Panic(m3, "index out of range")
                ELSE push(m3, frame.cl.Free[u8 + 1])
         [] OTHER -> Ok(m1)

\* The condition of the loop of Run.
Running(m) == currentFrame(m).ip < Len(Instructions(currentFrame(m))) - 1

\* The loop of Run for at most n iterations (for all of them if n < 0): it
\* ends when the condition fails or an iteration returns an error.
RECURSIVE RunSteps(_, _)
RunSteps(m, n) ==
    IF n = 0 \/ ~Running(m) THEN Ok(m)
    ELSE LET r == RunStep(m)
         IN IF IsError(r) THEN r ELSE RunSteps(r.vm, n - 1)

\* (vm *VM) Run()
Run(m) == RunSteps(m, -1)

(***************************************************************************)
(* Programs.  Source programs are ASTs, as the parser hands them to        *)
(* Compile.  Assembled programs are bytecode in the documented encoding    *)
(* (every operand written in its width), of the shape documented for       *)
(* function literals and calls: Closure, the arguments, Call.              *)
(***************************************************************************)
MaxDepth == 2       \* nesting depth of the generated expressions
MaxArgs == 2        \* parameters of a called function
MaxExtraLocals == 1 \* let bindings of a called function
MaxBelow == 2       \* values the caller holds on the stack below the callee

ParamNames == <<"p", "q", "r", "s">>

Block1(stmt) == BlockStatement(<<stmt>>)

\* The expression contexts an expression e can occur in.
Contexts(e) ==
    {PrefixExpression("!", e),
     PrefixExpression("-", e),
     InfixExpression("+", e, IntegerLiteral(1)),
     InfixExpression("<", IntegerLiteral(1), e),
     ArrayLiteral(<<e>>),
     IndexExpression(ArrayLiteral(<<IntegerLiteral(2), e>>), IntegerLiteral(1)),
     IfExpression(e, Block1(ExpressionStatement(IntegerLiteral(1))), NoAlternative),
     IfExpression(BooleanLiteral(TRUE), Block1(ExpressionStatement(e)),
                  Block1(ExpressionStatement(IntegerLiteral(2)))),
     FunctionLiteral(<<>>, Block1(ExpressionStatement(e))),
     CallExpression(FunctionLiteral(<<>>, Block1(ReturnStatement(e))), <<>>)}

\* "a" is bound by a let where the program has one; "x" is never bound.
Atoms ==
    {IntegerLiteral(1), IntegerLiteral(2), BooleanLiteral(TRUE), BooleanLiteral(FALSE),
     StringLiteral("s"), NilLiteral, Ident("a"), Ident("x")}

RECURSIVE Exprs(_)
Exprs(d) ==
    IF d = 0 THEN Atoms
    ELSE Exprs(d - 1) \cup UNION {Contexts(e) : e \in Exprs(d - 1)}

GeneratedPrograms ==
    {Program(<<ExpressionStatement(e)>>) : e \in Exprs(MaxDepth)}
    \cup {Program(<<LetStatement("a", IntegerLiteral(1)), ExpressionStatement(e)>>) :
            e \in Exprs(MaxDepth)}

\* let f = fn(p0, ..., p(k-1)) { p(i) }; f(1, ..., k)
ParamProgram(k, i) ==
    Program(<<LetStatement("f",
                FunctionLiteral(SubSeq(ParamNames, 1, k),
                                Block1(ExpressionStatement(Ident(ParamNames[i + 1]))))),
              ExpressionStatement(
                CallExpression(Ident("f"), [j \in 1..k |-> IntegerLiteral(j)]))>>)

ParamPrograms ==
    {ParamProgram(t[1], t[2]) :
        t \in {u \in (1..MaxArgs) \X (0..(MaxArgs - 1)) : u[2] < u[1]}}

\* let outer = fn() { let x = 5; fn() { x } }; outer()()
ClosureProgram ==
    Program(<<LetStatement("outer",
                FunctionLiteral(<<>>, BlockStatement(<<
                    LetStatement("x", IntegerLiteral(5)),
                    ExpressionStatement(
                        FunctionLiteral(<<>>, Block1(ExpressionStatement(Ident("x")))))>>))),
              ExpressionStatement(
                CallExpression(CallExpression(Ident("outer"), <<>>), <<>>))>>)

\* let f = fn() { if (false) { f() } else { 7 } }; f()
RecursiveProgram ==
    Program(<<LetStatement("f",
                FunctionLiteral(<<>>, Block1(ExpressionStatement(
                    IfExpression(BooleanLiteral(FALSE),
                                 Block1(ExpressionStatement(CallExpression(Ident("f"), <<>>))),
                                 Block1(ExpressionStatement(IntegerLiteral(7)))))))),
              ExpressionStatement(CallExpression(Ident("f"), <<>>))>>)

\* let fib = fn(x) { if (x < 2) { return x; } fib(x - 1) + fib(x - 2); }; fib(3)
FibProgram ==
    Program(<<LetStatement("fib",
                FunctionLiteral(<<"x">>, BlockStatement(<<
                    ExpressionStatement(
                        IfExpression(InfixExpression("<", Ident("x"), IntegerLiteral(2)),
                                     Block1(ReturnStatement(Ident("x"))), NoAlternative)),
                    ExpressionStatement(
                        InfixExpression("+",
                            CallExpression(Ident("fib"),
                                <<InfixExpression("-", Ident("x"), IntegerLiteral(1))>>),
                            CallExpression(Ident("fib"),
                                <<InfixExpression("-", Ident("x"), IntegerLiteral(2))>>)))>>))),
              ExpressionStatement(CallExpression(Ident("fib"), <<IntegerLiteral(3)>>))>>)

MaxPairs == 3       \* entries of a hash literal

\* The entries a hash literal is made of: a key and a value.
HashEntries ==
    {IntegerLiteral(1), IntegerLiteral(9), IntegerLiteral(10), BooleanLiteral(TRUE)}
    \X {IntegerLiteral(2), IntegerLiteral(3)}

\* The lists of n different entries.
RECURSIVE EntryLists(_)
EntryLists(n) ==
    IF n = 0 THEN {<<>>}
    ELSE {Append(l, e) : l \in EntryLists(n - 1), e \in HashEntries}

\* { k1: v1, ..., kn: vn } for every set of up to MaxPairs entries, in every
\* order a range over the map can yield them.
HashPrograms ==
    {Program(<<ExpressionStatement(HashLiteral(l))>>) :
        l \in {k \in UNION {EntryLists(n) : n \in 0..MaxPairs} :
                 \A i, j \in DOMAIN k : k[i] = k[j] => i = j}}

\* fn() { return 99; 100 }()  and  fn() { return 99; return 100 }()
ReturnProgram(twice) ==
    Program(<<ExpressionStatement(CallExpression(
        FunctionLiteral(<<>>, BlockStatement(<<
            ReturnStatement(IntegerLiteral(99)),
            IF twice THEN ReturnStatement(IntegerLiteral(100))
            ELSE ExpressionStatement(IntegerLiteral(100))>>)),
        <<>>))>>)

ReturnPrograms == {ReturnProgram(twice) : twice \in BOOLEAN}

\* fn() { }()
EmptyFnProgram ==
    Program(<<ExpressionStatement(CallExpression(
        FunctionLiteral(<<>>, BlockStatement(<<>>)), <<>>))>>)

\* The conditions of the conditionals, and whether each is truthy:
\* true, false, 0, if (false) { 1 } (which is Nil), 1 < 2, 1 > 2.
IfConds ==
    <<BooleanLiteral(TRUE), BooleanLiteral(FALSE), IntegerLiteral(0),
      IfExpression(BooleanLiteral(FALSE), Block1(ExpressionStatement(IntegerLiteral(1))),
                   NoAlternative),
      InfixExpression("<", IntegerLiteral(1), IntegerLiteral(2)),
      InfixExpression(">", IntegerLiteral(1), IntegerLiteral(2))>>
IfCondTruthy == <<TRUE, FALSE, TRUE, FALSE, TRUE, FALSE>>
\* The number of bytes the code of each condition takes.
IfCondLen == <<1, 1, 3, 11, 7, 7>>

\* The blocks of the conditionals, whose last values are b, b + 1, b + 2 and
\* b + 3:  { b }, { 3; b + 1 }, { if (true) { b + 2 } else { 0 } } and
\* { if (false) { 0 } else { b + 3 } }.
IfBlocks(b) ==
    <<Block1(ExpressionStatement(IntegerLiteral(b))),
      BlockStatement(<<ExpressionStatement(IntegerLiteral(3)),
                       ExpressionStatement(IntegerLiteral(b + 1))>>),
      Block1(ExpressionStatement(
          IfExpression(BooleanLiteral(TRUE),
                       Block1(ExpressionStatement(IntegerLiteral(b + 2))),
                       Block1(ExpressionStatement(IntegerLiteral(0)))))),
      Block1(ExpressionStatement(
          IfExpression(BooleanLiteral(FALSE),
                       Block1(ExpressionStatement(IntegerLiteral(0))),
                       Block1(ExpressionStatement(IntegerLiteral(b + 3))))))>>

\* if (cond i) { block j of 10 } else { block k of 20 }, without else if k = 0.
IfProgram(i, j, k) ==
    Program(<<ExpressionStatement(
        IfExpression(IfConds[i], IfBlocks(10)[j],
                     IF k = 0 THEN NoAlternative ELSE IfBlocks(20)[k]))>>)

IfShapes == (DOMAIN IfConds) \X (DOMAIN IfBlocks(10)) \X (0..Len(IfBlocks(20)))

IfPrograms == {IfProgram(t[1], t[2], t[3]) : t \in IfShapes}

\* The operands of the comparisons: 0, 1, 2, -1, true, false, "s".
CmpOperands ==
    <<IntegerLiteral(0), IntegerLiteral(1), IntegerLiteral(2),
      PrefixExpression("-", IntegerLiteral(1)),
      BooleanLiteral(TRUE), BooleanLiteral(FALSE), StringLiteral("s")>>
\* The integer each denotes; the operands from the fifth on are no integers.
CmpValues == <<0, 1, 2, -1>>

\* (operand i) < (operand j)
CmpProgram(i, j) ==
    Program(<<ExpressionStatement(InfixExpression("<", CmpOperands[i], CmpOperands[j]))>>)

CmpShapes == (DOMAIN CmpOperands) \X (DOMAIN CmpOperands)

CmpPrograms == {CmpProgram(t[1], t[2]) : t \in CmpShapes}

\* The containers of the index expressions:
\* [], [7], [7, 8], {}, {1: 7, true: 8}, 5, "s", true.
IndexContainers ==
    <<ArrayLiteral(<<>>),
      ArrayLiteral(<<IntegerLiteral(7)>>),
      ArrayLiteral(<<IntegerLiteral(7), IntegerLiteral(8)>>),
      HashLiteral(<<>>),
      HashLiteral(<< <<IntegerLiteral(1), IntegerLiteral(7)>>,
                     <<BooleanLiteral(TRUE), IntegerLiteral(8)>> >>),
      IntegerLiteral(5), StringLiteral("s"), BooleanLiteral(TRUE)>>

\* Their indices: 0, 1, 2, -1, true, false, "s", [].
IndexIndices ==
    <<IntegerLiteral(0), IntegerLiteral(1), IntegerLiteral(2),
      PrefixExpression("-", IntegerLiteral(1)),
      BooleanLiteral(TRUE), BooleanLiteral(FALSE), StringLiteral("s"),
      ArrayLiteral(<<>>)>>

\* (container c)[index i]
IndexProgram(c, i) ==
    Program(<<ExpressionStatement(IndexExpression(IndexContainers[c], IndexIndices[i]))>>)

IndexPrograms ==
    {IndexProgram(t[1], t[2]) : t \in (DOMAIN IndexContainers) \X (DOMAIN IndexIndices)}

\* The values truthiness is asked of: 0, "", [], {}, fn() { }, true, false,
\* 5, and the Nil of if (false) { 1 }.
TruthOperands ==
    <<IntegerLiteral(0), StringLiteral(""), ArrayLiteral(<<>>), HashLiteral(<<>>),
      FunctionLiteral(<<>>, BlockStatement(<<>>)),
      BooleanLiteral(TRUE), BooleanLiteral(FALSE), IntegerLiteral(5),
      IfExpression(BooleanLiteral(FALSE), Block1(ExpressionStatement(IntegerLiteral(1))),
                   NoAlternative)>>

\* !v  and  if (v) { 1 } else { 2 }
TruthProgram(bang, i) ==
    Program(<<ExpressionStatement(
        IF bang THEN PrefixExpression("!", TruthOperands[i])
        ELSE IfExpression(TruthOperands[i],
                          Block1(ExpressionStatement(IntegerLiteral(1))),
                          Block1(ExpressionStatement(IntegerLiteral(2)))))>>)

TruthPrograms == {TruthProgram(t[1], t[2]) : t \in BOOLEAN \X (DOMAIN TruthOperands)}

\* The name of builtin i alone, at top level or as the body of a function:
\*   len;   fn() { len }
BuiltinProgram(i, inFn) ==
    IF inFn
    THEN Program(<<ExpressionStatement(FunctionLiteral(<<>>,
                      Block1(ExpressionStatement(Ident(BuiltinNames[i])))))>>)
    ELSE Program(<<ExpressionStatement(Ident(BuiltinNames[i]))>>)

BuiltinPrograms == {BuiltinProgram(i, inFn) : i \in DOMAIN BuiltinNames, inFn \in BOOLEAN}

\* (operand i) / (operand j), over the integer operands 0, 1, 2, -1
DivProgram(i, j) ==
    Program(<<ExpressionStatement(InfixExpression("/", CmpOperands[i], CmpOperands[j]))>>)

DivPrograms == {DivProgram(i, j) : i \in DOMAIN CmpValues, j \in DOMAIN CmpValues}

LocalNames == <<"a", "b", "c">>

\* fn(p0, ..., p(k-1)) { let a = 1; ...; (l bindings) [fn() { a }] }
\* The body ends in a function that captures the first binding if capture.
LocalsProgram(k, l, capture) ==
    Program(<<ExpressionStatement(FunctionLiteral(SubSeq(ParamNames, 1, k),
        BlockStatement(
            [i \in 1..l |-> LetStatement(LocalNames[i], IntegerLiteral(i))]
            \o (IF capture
                THEN <<ExpressionStatement(FunctionLiteral(<<>>,
                          Block1(ExpressionStatement(Ident(LocalNames[1])))))>>
                ELSE <<>>))))>>)

LocalsShapes ==
    {t \in (0..MaxArgs) \X (0..(MaxExtraLocals + 1)) \X BOOLEAN : t[3] => t[2] >= 1}

LocalsPrograms == {LocalsProgram(t[1], t[2], t[3]) : t \in LocalsShapes}

\* Return statements at the top level of a program:
\*   return 1;     1; return 2; 3;     let a = 1; return a;
TopReturnPrograms ==
    {Program(<<ReturnStatement(IntegerLiteral(1))>>),
     Program(<<ExpressionStatement(IntegerLiteral(1)), ReturnStatement(IntegerLiteral(2)),
               ExpressionStatement(IntegerLiteral(3))>>),
     Program(<<LetStatement("a", IntegerLiteral(1)), ReturnStatement(Ident("a"))>>)}

\* The blocks a conditional can end in:  { 10 },  { },  { let a = 1; }  and
\* { return 1; }.
EndBlocks ==
    <<Block1(ExpressionStatement(IntegerLiteral(10))),
      BlockStatement(<<>>),
      Block1(LetStatement("a", IntegerLiteral(1))),
      Block1(ReturnStatement(IntegerLiteral(1)))>>

\* if (cond) { block j } else { block k }, without else if k = 0.
IfEndProgram(cond, j, k) ==
    Program(<<ExpressionStatement(
        IfExpression(BooleanLiteral(cond), EndBlocks[j],
                     IF k = 0 THEN NoAlternative ELSE EndBlocks[k]))>>)

IfEndShapes == BOOLEAN \X (DOMAIN EndBlocks) \X (0..Len(EndBlocks))

IfEndPrograms == {IfEndProgram(t[1], t[2], t[3]) : t \in IfEndShapes}

Programs ==
    GeneratedPrograms \cup ParamPrograms
    \cup {ClosureProgram, RecursiveProgram, FibProgram}
    \cup HashPrograms
    \cup ReturnPrograms \cup {EmptyFnProgram}
    \cup IfPrograms \cup CmpPrograms \cup IndexPrograms \cup TruthPrograms
    \cup BuiltinPrograms \cup DivPrograms \cup LocalsPrograms
    \cup TopReturnPrograms \cup IfEndPrograms

\* The documented encoding of an instruction: every operand in its width,
\* big-endian.
Assemble(op, operands) ==
    <<op>> \o Concat([i \in 1..Len(operands) |->
                        IF Lookup(op)[i] = 2 THEN PutUint16(operands[i])
                        ELSE <<operands[i] % 256>>])

\* A listing of <<opcode name, operands...>> assembled.
Asm(listing) ==
    Concat([i \in 1..Len(listing) |-> Assemble(Op[Head(listing[i])], Tail(listing[i]))])

\* The bytecode of  [b1, ..., bd, fn(p0, ..., p(k-1)) { g(7); let c = 30; l(i) }(a1, ..., ak)]
\* where the body calls g = fn(y) { y } first if nest, binds e locals, and
\* returns local i if ret (nothing if not).  Constants: 0 is the function,
\* 1 is g, 2.. are integers.
CallProgram(k, e, d, i, ret, nest) ==
    LET g == CompiledFunction(Asm(<< <<"OpGetLocal", 0>>, <<"OpReturnValue">> >>),
                              1, 1, ConstAddr(1))
        body == Asm((IF nest THEN << <<"OpClosure", 1, 0>>, <<"OpConstant", 2>>,
                                     <<"OpCall", 1>>, <<"OpPop">> >>
                             ELSE <<>>)
                    \o Concat([j \in 1..e |-> << <<"OpConstant", 2>>,
                                                <<"OpSetLocal", k + j - 1>> >>])
                    \o (IF ret THEN << <<"OpGetLocal", i>>, <<"OpReturnValue">> >>
                        ELSE << <<"OpReturn">> >>))
        fn == CompiledFunction(body, k + e, k, ConstAddr(0))
        main == Asm([j \in 1..d |-> <<"OpConstant", 2 + j>>]
                    \o << <<"OpClosure", 0, 0>> >>
                    \o [j \in 1..k |-> <<"OpConstant", 2 + d + j>>]
                    \o << <<"OpCall", k>>, <<"OpArray", d + 1>>, <<"OpPop">> >>)
    IN [Instructions |-> main,
        Constants |-> <<fn, g, Integer(30)>> \o [j \in 1..d |-> Integer(10 * j)]
                      \o [j \in 1..k |-> Integer(j)]]

\* The shapes <<k, e, d, i, ret, nest>> with local i existing when it is read.
CallShapes ==
    {t \in (0..MaxArgs) \X (0..MaxExtraLocals) \X (0..MaxBelow)
           \X (0..(MaxArgs + MaxExtraLocals - 1)) \X BOOLEAN \X BOOLEAN :
        IF t[5] THEN t[4] < t[1] + t[2] ELSE t[4] = 0}

CallPrograms == {CallProgram(t[1], t[2], t[3], t[4], t[5], t[6]) : t \in CallShapes}

\* The bytecode of  [b1, ..., bd, fn() { return 99; 100 }()]  with the function
\* called as a closure.  Constants: 0 is the function, 1 is 99, 2 is 100, 3 is
\* what is below.
ReturnBytecode(d) ==
    LET body == Asm(<< <<"OpConstant", 1>>, <<"OpReturnValue">>,
                       <<"OpConstant", 2>>, <<"OpReturnValue">> >>)
        main == Asm([j \in 1..d |-> <<"OpConstant", 3>>]
                    \o << <<"OpClosure", 0, 0>>, <<"OpCall", 0>>,
                          <<"OpArray", d + 1>>, <<"OpPop">> >>)
    IN [Instructions |-> main,
        Constants |-> <<CompiledFunction(body, 0, 0, ConstAddr(0)),
                        Integer(99), Integer(100), Integer(10)>>]

ReturnBytecodes == {ReturnBytecode(d) : d \in 0..MaxBelow}

\* The bytecode of  !v  and of  if (v) { 1 } else { 2 }  for v a closure or the
\* builtin len.  Constants: 0 is a function, 1 and 2 the integers.
TruthBytecode(bang, builtin) ==
    LET load == IF builtin THEN <<"OpGetBuiltin", 0>> ELSE <<"OpClosure", 0, 0>>
        main == IF bang THEN << load, <<"OpBang">>, <<"OpPop">> >>
                ELSE << load, <<"OpJumpNotTruthy", Len(Asm(<<load>>)) + 9>>,
                        <<"OpConstant", 1>>, <<"OpJump", Len(Asm(<<load>>)) + 12>>,
                        <<"OpConstant", 2>>, <<"OpPop">> >>
    IN [Instructions |-> Asm(main),
        Constants |-> <<CompiledFunction(Asm(<< <<"OpReturn">> >>), 0, 0, ConstAddr(0)),
                        Integer(1), Integer(2)>>]

TruthBytecodes == {TruthBytecode(t[1], t[2]) : t \in BOOLEAN \X BOOLEAN}

\* What a program can try to call: a closure, or a value that is no function.
CalleeKinds == {"closure", "function", "integer", "string", "true", "nil", "array"}

\* The bytecode of  [b1, ..., bd, callee(a1, ..., an)]  where the callee is a
\* closure of k parameters, the function constant itself, or another value.
\* Constants: 0 is the function, 1 is an integer, 2 is a string.
BadCallProgram(kind, k, n, d) ==
    LET body == Asm(<< <<"OpReturn">> >>)
        load == CASE kind = "closure" -> <<"OpClosure", 0, 0>>
                  [] kind = "function" -> <<"OpConstant", 0>>
                  [] kind = "integer" -> <<"OpConstant", 1>>
                  [] kind = "string" -> <<"OpConstant", 2>>
                  [] kind = "true" -> <<"OpTrue">>
                  [] kind = "nil" -> <<"OpNil">>
                  [] kind = "array" -> <<"OpArray", 0>>
        main == Asm([j \in 1..d |-> <<"OpConstant", 1>>]
                    \o <<load>>
                    \o [j \in 1..n |-> <<"OpConstant", 1>>]
                    \o << <<"OpCall", n>>, <<"OpPop">> >>)
    IN [Instructions |-> main,
        Constants |-> <<CompiledFunction(body, k, k, ConstAddr(0)), Integer(7),
                        String("s", ConstAddr(2))>>]

\* Calls with the wrong number of arguments and calls of values that are no
\* functions.
BadCallPrograms ==
    {BadCallProgram(t[1], t[2], t[3], t[4]) :
        t \in {u \in CalleeKinds \X (0..MaxArgs) \X (0..MaxArgs) \X (0..MaxBelow) :
                 IF u[1] = "closure" THEN u[2] # u[3] ELSE u[2] = 0}}

(***************************************************************************)
(* A session: a source program is compiled by a new Compiler and its       *)
(* bytecode run by a new VM (as runVMTests does), or an assembled program  *)
(* is handed to a new VM directly.                                         *)
(***************************************************************************)
NoCalls == [open |-> <<>>, closed |-> 0]
\* The value of calls in a run whose calls are not recorded.
NoHistory == <<>>

SymIdle ==
    /\ symTabs = <<NewSymbolTable>>
    /\ symLast = SymCall("New", 1, "", ZeroSymbol, FALSE, FALSE)
    /\ symDefCount = <<0>>

InitSource ==
    /\ phase = "source"
    /\ ast \in Programs
    /\ compiler = New
    /\ compileErr = NoError
    /\ vm = <<>>
    /\ vmErr = NoError
    /\ calls = NoCalls

InitAssembled ==
    /\ phase = "running"
    /\ ast = <<>>
    /\ compiler = <<>>
    /\ compileErr = NoError
    /\ \E bytecode \in CallPrograms \cup BadCallPrograms \cup ReturnBytecodes
                       \cup TruthBytecodes :
          vm = NewWithGlobalStore(bytecode, NoGlobals)
    /\ vmErr = NoError
    /\ calls = NoCalls

Init == SymIdle /\ NoCodec /\ NoRepl /\ (InitSource \/ InitAssembled)

\* complr.Compile(program)
CompileProgram ==
    /\ phase = "source"
    /\ compiler' = Compile(compiler, ast)
    /\ compileErr' = compiler'.err
    /\ phase' = IF Failed(compiler') THEN "compileFailed" ELSE "compiled"
    /\ UNCHANGED <<ast, vm, vmErr, calls, notRun>>

\* vm := New(complr.Bytecode())
StartVM ==
    /\ phase = "compiled"
    /\ vm' = NewWithGlobalStore(Bytecode(compiler), NoGlobals)
    /\ phase' = "running"
    /\ UNCHANGED <<ast, compiler, compileErr, vmErr, calls, notRun>>

\* What the machine was when the frame now on top was called.
CallRecord(m) ==
    [stack |-> m.stack, sp |-> m.sp, framesIdx |-> m.framesIdx,
     caller |-> currentFrame(m)]

\* One iteration of the loop of Run; an error ends Run, a panic the process.
VMStep ==
    /\ phase = "running"
    /\ Running(vm)
    /\ LET r == RunStep(vm)
       IN /\ vm' = r.vm
          /\ vmErr' = r.err
          /\ phase' = IF r.err = NoError THEN "running"
                      ELSE IF r.err.kind = "panic" THEN "crashed" ELSE "failed"
          /\ calls' = IF calls = NoHistory THEN calls
                      ELSE IF r.vm.framesIdx > vm.framesIdx
                      THEN [calls EXCEPT !.open = Append(@, CallRecord(vm))]
                      ELSE IF r.vm.framesIdx < vm.framesIdx /\ calls.open # <<>>
                      THEN [calls EXCEPT !.open = SubSeq(@, 1, Len(@) - 1),
                                         !.closed = @ + 1]
                      ELSE calls
    /\ UNCHANGED <<ast, compiler, compileErr, notRun>>

\* The loop of Run ends: Run returns nil.
VMReturn ==
    /\ phase = "running"
    /\ ~Running(vm)
    /\ phase' = "halted"
    /\ UNCHANGED <<ast, compiler, compileErr, vm, vmErr, calls, notRun>>

Next ==
    \/ CompileProgram
    \/ StartVM
    \/ VMStep
    \/ VMReturn

Spec == Init /\ [][Next]_vars

(***************************************************************************)
(* Properties of a session.                                                *)
(***************************************************************************)
\* Run is about to execute an iteration of its loop.
Stepping == phase = "running" /\ Running(vm)

\* The opcode that iteration executes, and the byte after it.
NextOp(m) == Instructions(currentFrame(m))[currentFrame(m).ip + 2]
NextOperand8(m) == Instructions(currentFrame(m))[currentFrame(m).ip + 3]

Compiled == ast # <<>> /\ phase # "source"
RunFailed == phase \in {"failed", "crashed"}

\* The child nodes of an AST node.
Children(node) ==
    CASE node.Type \in {"Program", "BlockStatement"} -> node.Statements
      [] node.Type = "ExpressionStatement" -> <<node.Expression>>
      [] node.Type = "LetStatement" -> <<node.Value>>
      [] node.Type = "ReturnStatement" -> <<node.ReturnValue>>
      [] node.Type = "PrefixExpression" -> <<node.Right>>
      [] node.Type = "InfixExpression" -> <<node.Left, node.Right>>
      [] node.Type = "IndexExpression" -> <<node.Left, node.Index>>
      [] node.Type = "IfExpression" ->
            <<node.Condition, node.Consequence>>
            \o (IF node.Alternative = NoAlternative THEN <<>> ELSE <<node.Alternative>>)
      [] node.Type = "CallExpression" -> <<node.Function>> \o node.Arguments
      [] node.Type = "ArrayLiteral" -> node.Elements
      [] node.Type = "HashLiteral" -> Concat(node.Pairs)
      [] node.Type = "FunctionLiteral" -> <<node.Body>>
      [] OTHER -> <<>>

RECURSIVE IdentsOf(_)
\* The names the identifiers of a node refer to.
IdentsOf(node) ==
    (IF node.Type = "Ident" THEN {node.Value} ELSE {})
    \cup UNION {IdentsOf(Children(node)[i]) : i \in DOMAIN Children(node)}

RECURSIVE BoundIn(_)
\* The names a node binds somewhere: by let or as a parameter.
BoundIn(node) ==
    (IF node.Type = "LetStatement" THEN {node.Name} ELSE {})
    \cup (IF node.Type = "FunctionLiteral"
          THEN {node.Parameters[i] : i \in DOMAIN node.Parameters} ELSE {})
    \cup UNION {BoundIn(Children(node)[i]) : i \in DOMAIN Children(node)}

RECURSIVE InsnStarts(_, _)
\* The offsets at which the instructions of a sequence start, from pos on.
InsnStarts(insns, pos) ==
    IF pos >= Len(insns) THEN {}
    ELSE {pos} \cup InsnStarts(insns, pos + 1 + (IF Defined(insns[pos + 1])
                                                 THEN SeqSum(Lookup(insns[pos + 1]))
                                                 ELSE 0))

\* Every jump of the sequence targets the start of an instruction or the end.
JumpsValid(insns) ==
    \A pos \in InsnStarts(insns, 0) :
        insns[pos + 1] \in {Op.OpJump, Op.OpJumpNotTruthy} =>
            /\ pos + 2 < Len(insns)
            /\ ReadUint16(insns, pos + 1) \in InsnStarts(insns, 0) \cup {Len(insns)}

\* The instruction sequences of a compiler: its scopes and its function constants.
Sequences(c) ==
    {c.scopes[i].insns : i \in DOMAIN c.scopes}
    \cup {c.consts[i].Instructions :
            i \in {j \in DOMAIN c.consts : c.consts[j].Type = "COMPILED_FUNCTION"}}

\* sub occurs in insns as a contiguous run of bytes.
Contains(insns, sub) ==
    \E k \in 0..(Len(insns) - Len(sub)) : SubSeq(insns, k + 1, k + Len(sub)) = sub

\* C1: a Call whose callee is a Closure taking numArgs parameters pushes one
\* frame for it with bp = sp - numArgs and sets sp to bp + numLocals, leaving
\* the stack below sp as it was.
C1_CallPushesFrame ==
    (/\ Stepping
     /\ NextOp(vm) = Op.OpCall
     /\ InStack(vm.sp - 1 - NextOperand8(vm))
     /\ StackAt(vm, vm.sp - 1 - NextOperand8(vm)).Type = "CLOSURE"
     /\ StackAt(vm, vm.sp - 1 - NextOperand8(vm)).Fn.NumParameters = NextOperand8(vm))
    => LET numArgs == NextOperand8(vm)
           callee == StackAt(vm, vm.sp - 1 - numArgs)
       IN /\ vmErr' = NoError
          /\ vm'.framesIdx = vm.framesIdx + 1
          /\ currentFrame(vm') = NewFrame(callee, vm.sp - numArgs)
          /\ vm'.sp = (vm.sp - numArgs) + callee.Fn.NumLocals
          /\ \A i \in 0..(vm.sp - 1) : StackAt(vm', i) = StackAt(vm, i)

\* C1: when the called frame executes ReturnValue or Return, it is popped, sp
\* ends at its bp with the result (the value returned, or Nil) at bp - 1,
\* every slot below bp - 1 is what it was before the Call, and the caller
\* resumes after the Call.
C1_ReturnPopsFrame ==
    (Stepping /\ NextOp(vm) \in {Op.OpReturnValue, Op.OpReturn} /\ vm.framesIdx > 1)
    => LET call == calls.open[Len(calls.open)]
           bp == currentFrame(vm).bp
           result == IF NextOp(vm) = Op.OpReturnValue THEN StackAt(vm, vm.sp - 1) ELSE Nil
           callPos == call.caller.ip + 1
       IN /\ vmErr' = NoError
          /\ vm'.framesIdx = vm.framesIdx - 1
          /\ vm'.framesIdx = call.framesIdx
          /\ bp = call.sp - Instructions(call.caller)[callPos + 2]
          /\ vm'.sp = bp
          /\ StackAt(vm', bp - 1) = result
          /\ \A i \in 0..(bp - 2) : StackAt(vm', i) = StackAt(call, i)
          /\ currentFrame(vm').cl = call.caller.cl
          /\ currentFrame(vm').bp = call.caller.bp
          /\ currentFrame(vm').ip + 1 = callPos + 2

\* C1: every Call of a Closure with the right number of arguments and every
\* return from the frame it pushed keep the frame discipline above.
C1_CallReturnDiscipline == [][C1_CallPushesFrame /\ C1_ReturnPopsFrame]_vars

\* A run is over in which a function of two parameters and one more local,
\* called with two values below it on the stack, called another function and
\* returned its second argument.
C1_Witness ==
    /\ phase = "halted"
    /\ ast = <<>>
    /\ calls.closed = 2
    /\ calls.open = <<>>
    /\ vm.framesIdx = 1
    /\ vm.sp = 0
    /\ LastPoppedStackElem(vm).Type = "ARRAY"
    /\ LastPoppedStackElem(vm).Elements = <<Integer(10), Integer(20), Integer(2)>>

\* C2: for let f = fn(p0, ..., p(k-1)) { p(i) }; f(1, ..., k) Compile succeeds,
\* the body of the function is GetLocal i; ReturnValue, its numLocals is at
\* least k, and the run ends with the i-th argument as the value of the call.
C2_ParametersAreLocals ==
    \A k \in 1..MaxArgs, i \in 0..(MaxArgs - 1) :
        (i < k /\ Compiled /\ ast = ParamProgram(k, i)) =>
            /\ compileErr = NoError
            /\ \E j \in DOMAIN compiler.consts :
                  /\ compiler.consts[j].Type = "COMPILED_FUNCTION"
                  /\ compiler.consts[j].Instructions =
                         Asm(<< <<"OpGetLocal", i>>, <<"OpReturnValue">> >>)
                  /\ compiler.consts[j].NumLocals >= k
            /\ ~RunFailed
            /\ phase = "halted" => LastPoppedStackElem(vm) = Integer(i + 1)

\* C3: for let outer = fn() { let x = 5; fn() { x } }; outer()() Compile
\* succeeds, the inner function reads x with GetFree 0, the outer function
\* loads x with GetLocal 0 immediately before the Closure instruction of the
\* inner function, whose numFree is 1, and the run ends with 5.
C3_ClosureConversion ==
    (Compiled /\ ast = ClosureProgram) =>
        /\ compileErr = NoError
        /\ \E inner, outer \in DOMAIN compiler.consts :
              /\ compiler.consts[inner].Type = "COMPILED_FUNCTION"
              /\ compiler.consts[outer].Type = "COMPILED_FUNCTION"
              /\ compiler.consts[inner].Instructions =
                     Asm(<< <<"OpGetFree", 0>>, <<"OpReturnValue">> >>)
              /\ Contains(compiler.consts[outer].Instructions,
                          Asm(<< <<"OpGetLocal", 0>>, <<"OpClosure", inner - 1, 1>> >>))
        /\ ~RunFailed
        /\ phase = "halted" => LastPoppedStackElem(vm) = Integer(5)

\* C4: a function bound with let can call itself by that name: Compile
\* succeeds for let f = fn() { if (false) { f() } else { 7 } }; f() and for the
\* recursive Fibonacci program, and the runs end with 7 and with fib(3) = 2.
C4_LetFunctionCanRecurse ==
    (Compiled /\ ast \in {RecursiveProgram, FibProgram}) =>
        /\ compileErr = NoError
        /\ ~RunFailed
        /\ phase = "halted" =>
              LastPoppedStackElem(vm) = IF ast = FibProgram THEN Integer(2) ELSE Integer(7)

\* C5: Compile of a program with an identifier that nothing binds returns the
\* error undefined variable, naming such an identifier; it never returns nil.
C5_UndefinedVariableReported ==
    (Compiled /\ IdentsOf(ast) \ BoundIn(ast) # {}) =>
        /\ compileErr.kind = "undefined variable"
        /\ compileErr.arg \in IdentsOf(ast) \ BoundIn(ast)

\* C6: after Compile returned nil, every Jump and JumpNotTruthy of every scope
\* and of every function constant targets the start of an instruction of its
\* sequence or its end.
C6_JumpTargetsValid ==
    (Compiled /\ compileErr = NoError) =>
        \A insns \in Sequences(compiler) : JumpsValid(insns)

\* C16: a Call whose callee is a Closure taking another number of parameters
\* than numArgs makes Run return wrong number of arguments: want=P, got=N, and
\* a Call whose callee is a value that is neither a Closure nor a Builtin makes
\* Run return calling non-function and non-built-in: type T; either way no
\* frame is pushed and sp and the stack are what they were.
C16_FailedCallChangesNothing ==
    [][LET numArgs == NextOperand8(vm)
           callee == StackAt(vm, vm.sp - 1 - numArgs)
           arity == callee.Type = "CLOSURE" /\ callee.Fn.NumParameters # numArgs
           other == callee.Type \notin {"CLOSURE", "BUILTIN"}
       IN (/\ Stepping
           /\ NextOp(vm) = Op.OpCall
           /\ InStack(vm.sp - 1 - numArgs)
           /\ callee # GoNil
           /\ arity \/ other) =>
              /\ phase' = "failed"
              /\ vmErr' = IF arity
                          THEN Errorf("wrong number of arguments",
                                      <<callee.Fn.NumParameters, numArgs>>)
                          ELSE Errorf("calling non-function and non-built-in",
                                      callee.Type)
              /\ vm'.framesIdx = vm.framesIdx
              /\ Len(vm'.frames) = Len(vm.frames)
              /\ currentFrame(vm').cl = currentFrame(vm).cl
              /\ currentFrame(vm').bp = currentFrame(vm).bp
              /\ vm'.sp = vm.sp
              /\ vm'.stack = vm.stack]_vars

\* Run has returned wrong number of arguments: want=2, got=1 for a call made
\* with two values below the callee: the four slots are still on the stack.
C16_Witness ==
    /\ phase = "failed"
    /\ vmErr = Errorf("wrong number of arguments", <<2, 1>>)
    /\ vm.framesIdx = 1
    /\ vm.sp = 4
    /\ StackAt(vm, 2).Type = "CLOSURE"
    /\ StackAt(vm, 3) = Integer(7)

\* The orders a range over the map of a hash literal can yield its entries in.
Orders(pairs) ==
    {[i \in DOMAIN pairs |-> pairs[f[i]]] :
        f \in {g \in [DOMAIN pairs -> DOMAIN pairs] :
                 \A i, j \in DOMAIN pairs : g[i] = g[j] => i = j}}

\* The compiler c of a hash literal of n entries holds what the compiler each
\* of its keys and values in some order holds, then Hash 2n and Pop.
EmitsInOrder(c, each, n) ==
    /\ c.consts = each.consts
    /\ c.scopes[1].insns
          = each.scopes[1].insns \o Asm(<< <<"OpHash", 2 * n>>, <<"OpPop">> >>)

\* C18: the bytecode of a hash literal (instructions and constant pool) is the
\* same whatever order the map of its entries is ranged over; the keys are
\* emitted in the order of their printed forms, each followed by its value,
\* and the operand of Hash is twice the number of entries.
C18_HashLiteralDeterministic ==
    (Compiled /\ ast \in HashPrograms) =>
        LET pairs == ast.Statements[1].Expression.Pairs
        IN /\ compileErr = NoError
           /\ \A q \in Orders(pairs) :
                 Bytecode(Compile(New, Program(<<ExpressionStatement(HashLiteral(q))>>)))
                     = Bytecode(compiler)
           /\ \E q \in Orders(pairs) :
                 /\ \A i \in 1..(Len(q) - 1) :
                       ~StringLess(NodeString(q[i + 1][1]), NodeString(q[i][1]))
                 /\ EmitsInOrder(compiler, CompileEach(New, Concat(q)), Len(pairs))

\* The session ended, one way or another.
Ended == phase \in {"compileFailed", "failed", "crashed", "halted"}

\* C19: fn() { return 99; 100 }() and fn() { return 99; return 100 }() both
\* yield 99: the call's result is the value of the first return statement
\* reached, and nothing of the body after it is executed.
C19_EarlyReturn ==
    (ast \in ReturnPrograms /\ Ended) =>
        /\ phase = "halted"
        /\ LastPoppedStackElem(vm) = Integer(99)

\* The machine runs the assembled fn() { return 99; 100 }() called as a closure.
RunsReturnBytecode ==
    ast = <<>> /\ vm # <<>> /\ vm.consts = ReturnBytecode(0).Constants

\* On that bytecode the invocation never gets past its first ReturnValue (at
\* offset 3 of the body), the run halts and the call's result is 99.
EarlyReturnAssembled ==
    RunsReturnBytecode =>
        /\ phase \in {"running", "halted"}
        /\ \A i \in 2..vm.framesIdx : vm.frames[i].ip <= 3
        /\ phase = "halted" =>
              /\ LastPoppedStackElem(vm).Type = "ARRAY"
              /\ LastPoppedStackElem(vm).Elements[Len(LastPoppedStackElem(vm).Elements)]
                    = Integer(99)

\* The function constants of a compiler.
FunctionConstants(c) ==
    {c.consts[i] : i \in {j \in DOMAIN c.consts : c.consts[j].Type = "COMPILED_FUNCTION"}}

\* The offset of the last instruction of a sequence that is not empty.
LastStart(insns) ==
    CHOOSE pos \in InsnStarts(insns, 0) : \A q \in InsnStarts(insns, 0) : q <= pos

\* insns is what the end of a function literal makes of the instructions body
\* of its block.
EndsBody(insns, body) ==
    LET lastOp == IF body = <<>> THEN 0 ELSE body[LastStart(body) + 1]
    IN IF body # <<>> /\ lastOp = Op.OpPop
       THEN insns = SubSeq(body, 1, Len(body) - 1) \o <<Op.OpReturnValue>>
       ELSE IF body # <<>> /\ lastOp = Op.OpReturnValue
       THEN insns = body
       ELSE insns = body \o <<Op.OpReturn>>

\* What the compiler produces for a function: every function constant ends in
\* ReturnValue or Return; for fn() { ... } alone, a body that ends in Pop has
\* the Pop rewritten in place, a body that ends in ReturnValue is kept, any
\* other body gets a Return appended; the empty body is exactly one Return.
FunctionsEndInReturnCompiled ==
    /\ (Compiled /\ compileErr = NoError) =>
          \A fn \in FunctionConstants(compiler) :
              /\ fn.Instructions # <<>>
              /\ fn.Instructions[LastStart(fn.Instructions) + 1]
                    \in {Op.OpReturnValue, Op.OpReturn}
    /\ (Compiled /\ compileErr = NoError /\ Len(ast.Statements) = 1
          /\ ast.Statements[1].Type = "ExpressionStatement"
          /\ ast.Statements[1].Expression.Type = "FunctionLiteral") =>
          EndsBody(compiler.consts[Len(compiler.consts)].Instructions,
                   currentInsns(Compile(enterScope(New),
                                        ast.Statements[1].Expression.Body)))
    /\ (ast = EmptyFnProgram /\ Compiled) =>
          /\ compileErr = NoError
          /\ compiler.consts[1].Instructions = <<Op.OpReturn>>

\* C20: every function the compiler produces ends in ReturnValue or Return; a
\* body that ends in Pop has the Pop rewritten in place to ReturnValue, the
\* length unchanged; any other body that does not end in ReturnValue gets a
\* Return appended; the empty body compiles to exactly one Return, and calling
\* that function yields Nil.
C20_FunctionsEndInReturn ==
    /\ FunctionsEndInReturnCompiled
    /\ (ast = EmptyFnProgram /\ Ended) =>
          /\ phase = "halted"
          /\ LastPoppedStackElem(vm) = Nil

\* Side conditions reached: a function literal alone whose body ends in Pop,
\* and the assembled early return halted.
FunctionAloneCompiled ==
    /\ Compiled /\ compileErr = NoError /\ Len(ast.Statements) = 1
    /\ ast.Statements[1].Type = "ExpressionStatement"
    /\ ast.Statements[1].Expression.Type = "FunctionLiteral"
    /\ Len(compiler.consts[Len(compiler.consts)].Instructions) > 3
EarlyReturnHalted == RunsReturnBytecode /\ phase = "halted"

\* Compile went through the whole program: no identifier is unbound, so no
\* error was dropped on the way (an assembled program is whole as it is).
WholeProgram == ast = <<>> \/ IdentsOf(ast) \subseteq BoundIn(ast)

IfShape == CHOOSE t \in IfShapes : ast = IfProgram(t[1], t[2], t[3])

\* C21: a conditional compiles to its condition, JumpNotTruthy to the offset
\* just after the Jump that ends the consequence, the consequence, that Jump
\* to the offset just after the alternative (the single Nil where there is no
\* else), and the alternative; the run yields the last value of the
\* consequence if the condition is truthy, of the alternative if it is not,
\* and Nil if it is not and there is no else.
C21_Conditionals ==
    (ast \in IfPrograms /\ Compiled) =>
        LET i == IfShape[1]
            j == IfShape[2]
            k == IfShape[3]
            insns == compiler.scopes[1].insns
            jntPos == IfCondLen[i]
            afterConsequence == ReadUint16(insns, jntPos + 1)
            jumpPos == afterConsequence - 3
            afterAlternative == ReadUint16(insns, jumpPos + 1)
        IN /\ compileErr = NoError
           /\ jntPos \in InsnStarts(insns, 0)
           /\ insns[jntPos + 1] = Op.OpJumpNotTruthy
           /\ jumpPos \in InsnStarts(insns, 0)
           /\ jumpPos > jntPos
           /\ insns[jumpPos + 1] = Op.OpJump
           /\ afterConsequence \in InsnStarts(insns, 0)
           /\ afterAlternative = Len(insns) - 1
           /\ insns[afterAlternative + 1] = Op.OpPop
           /\ k = 0 => /\ insns[afterConsequence + 1] = Op.OpNil
                       /\ afterAlternative = afterConsequence + 1
           /\ ~RunFailed
           /\ phase = "halted" =>
                 LastPoppedStackElem(vm) =
                    IF IfCondTruthy[i] THEN Integer(10 + j - 1)
                    ELSE IF k = 0 THEN Nil ELSE Integer(20 + k - 1)

\* if (1 > 2) { 3; 11 } else { if (false) { 0 } else { 23 } } has run: 23.
C21_Witness ==
    /\ ast = IfProgram(6, 2, 4)
    /\ phase = "halted"
    /\ LastPoppedStackElem(vm) = Integer(23)

\* The comparison the session compiles, if the program is one of CmpPrograms.
CmpShape == CHOOSE t \in CmpShapes : ast = CmpProgram(t[1], t[2])

\* The code of operand i when the pool holds k constants, and the constants
\* it adds.
CmpOperandCode(i, k) ==
    IF i \in 1..3 \/ i = 7 THEN Asm(<< <<"OpConstant", k>> >>)
    ELSE IF i = 4 THEN Asm(<< <<"OpConstant", k>>, <<"OpMinus">> >>)
    ELSE IF i = 5 THEN Asm(<< <<"OpTrue">> >>)
    ELSE Asm(<< <<"OpFalse">> >>)
CmpOperandConsts(i, k) ==
    IF i \in 1..3 THEN <<Integer(CmpValues[i])>>
    ELSE IF i = 4 THEN <<Integer(1)>>
    ELSE IF i = 7 THEN <<String("s", ConstAddr(k))>>
    ELSE <<>>

\* C22: a < b compiles to the code of b, the code of a, then GreaterThan; for
\* integers a and b the run yields True exactly when a is less than b, and for
\* operands that are not both integers GreaterThan is an error.
C22_LessThan ==
    (ast \in CmpPrograms /\ Compiled) =>
        LET i == CmpShape[1]
            j == CmpShape[2]
            right == CmpOperandConsts(j, 0)
        IN /\ compileErr = NoError
           /\ compiler.consts = right \o CmpOperandConsts(i, Len(right))
           /\ compiler.scopes[1].insns
                 = CmpOperandCode(j, 0) \o CmpOperandCode(i, Len(right))
                   \o Asm(<< <<"OpGreaterThan">>, <<"OpPop">> >>)
           /\ IF i \in DOMAIN CmpValues /\ j \in DOMAIN CmpValues
              THEN /\ ~RunFailed
                   /\ phase = "halted" =>
                         LastPoppedStackElem(vm) = Boolean(CmpValues[i] < CmpValues[j])
              ELSE /\ phase # "halted"
                   /\ Ended => phase = "failed" /\ vmErr.kind = "unknown operator"

\* -1 < 0 has run and is True.
C22_Witness ==
    /\ ast = CmpProgram(4, 1)
    /\ phase = "halted"
    /\ LastPoppedStackElem(vm) = True

\* "s" < 2 has failed.
CmpOfStringFailed == ast = CmpProgram(7, 3) /\ phase = "failed"

\* What Index pushes for a container and an index it supports.
Indexed(left, idx) ==
    IF left.Type = "ARRAY"
    THEN IF 0 <= idx.Value /\ idx.Value <= Len(left.Elements) - 1
         THEN left.Elements[idx.Value + 1] ELSE Nil
    ELSE LET stored == {k \in DOMAIN left.Pairs :
                          /\ left.Pairs[k].Key.Type = idx.Type
                          /\ left.Pairs[k].Key.Value = idx.Value}
         IN IF stored = {} THEN Nil ELSE left.Pairs[CHOOSE k \in stored : TRUE].Value

\* The step of an Index whose container is left and whose index is idx.
IndexStep ==
    (Stepping /\ NextOp(vm) = Op.OpIndex /\ vm.sp >= 2) =>
        LET idx == StackAt(vm, vm.sp - 1)
            left == StackAt(vm, vm.sp - 2)
        IN IF \/ left.Type = "ARRAY" /\ idx.Type = "INTEGER"
              \/ left.Type = "HASH" /\ idx.Type \in {"INTEGER", "BOOLEAN", "STRING"}
           THEN /\ vmErr' = NoError
                /\ vm'.sp = vm.sp - 1
                /\ StackAt(vm', vm'.sp - 1) = Indexed(left, idx)
                /\ \A k \in 0..(vm.sp - 3) : StackAt(vm', k) = StackAt(vm, k)
           ELSE IF left.Type \notin {"ARRAY", "HASH", "<nil>"}
           THEN /\ phase' = "failed"
                /\ vmErr' = Errorf("index operator not supported", left.Type)
           ELSE vmErr' # NoError

\* C23: Index on an array and an integer i pushes the element at i if
\* 0 <= i <= len - 1 and Nil if not; on a hash and a hashable key it pushes the
\* value stored, or Nil if there is none; on any other container it is the
\* error index operator not supported; where it is no error, sp is one less.
C23_Index == [][IndexStep]_vars

\* [7, 8][1] has run and is 8, read with one value less on the stack.
C23_Witness ==
    /\ ast = IndexProgram(3, 2)
    /\ phase = "halted"
    /\ LastPoppedStackElem(vm) = Integer(8)

\* Other cases of Index that are reached: past the end, a hash hit and a
\* miss, a container that is no container.
IndexPastEnd == ast = IndexProgram(3, 3) /\ phase = "halted" /\ LastPoppedStackElem(vm) = Nil
IndexHashHit ==
    ast = IndexProgram(5, 5) /\ phase = "halted" /\ LastPoppedStackElem(vm) = Integer(8)
IndexHashMiss == ast = IndexProgram(5, 3) /\ phase = "halted" /\ LastPoppedStackElem(vm) = Nil
IndexOfInteger ==
    /\ ast = IndexProgram(6, 1)
    /\ phase = "failed"
    /\ vmErr = Errorf("index operator not supported", "INTEGER")

\* False and Nil are falsy; every other value is truthy.
Falsy(obj) == obj.Type = "NIL" \/ (obj.Type = "BOOLEAN" /\ ~obj.Value)

\* The step of a Bang or of a JumpNotTruthy on the value on top of the stack.
TruthStep ==
    /\ (Stepping /\ NextOp(vm) = Op.OpBang /\ vm.sp >= 1) =>
          /\ vmErr' = NoError
          /\ vm'.sp = vm.sp
          /\ StackAt(vm', vm.sp - 1)
                = IF Falsy(StackAt(vm, vm.sp - 1)) THEN True ELSE False
    /\ (Stepping /\ NextOp(vm) = Op.OpJumpNotTruthy /\ vm.sp >= 1) =>
          LET pos == currentFrame(vm).ip + 1
              target == ReadUint16(Instructions(currentFrame(vm)), pos + 1)
          IN /\ vmErr' = NoError
             /\ vm'.sp = vm.sp - 1
             /\ currentFrame(vm').ip + 1
                   = IF Falsy(StackAt(vm, vm.sp - 1)) THEN target ELSE pos + 3

\* C24: Bang and JumpNotTruthy agree on truthiness for every value: False and
\* Nil are falsy, everything else is truthy (the integer 0, the empty string,
\* the empty array and the empty hash too); Bang pushes True exactly for a
\* falsy operand, JumpNotTruthy jumps exactly for a falsy operand.
C24_Truthiness == [][TruthStep]_vars

\* if (0) { 1 } else { 2 } has run and is 1: the integer 0 is truthy.
C24_Witness ==
    /\ ast = TruthProgram(FALSE, 1)
    /\ phase = "halted"
    /\ LastPoppedStackElem(vm) = Integer(1)

\* !{} has run and is False; the conditional on a closure has run and is 1.
BangOfEmptyHash ==
    ast = TruthProgram(TRUE, 4) /\ phase = "halted" /\ LastPoppedStackElem(vm) = False
ClosureIsTruthy ==
    /\ ast = <<>> /\ vm # <<>> /\ phase = "halted"
    /\ vm.consts = TruthBytecode(FALSE, FALSE).Constants
    /\ Len(vm.stack) = 1
    /\ LastPoppedStackElem(vm) = Integer(1)

\* C25: after a Compile of a program that returns nil the compiler is back in
\* the main scope: scopeIdx is 0, one CompilationScope is left, the current
\* symbol table is the top-level one, and Bytecode() returns the instructions
\* of the main scope.
C25_BackInMainScope ==
    (Compiled /\ compileErr = NoError) =>
        /\ compiler.scopeIdx = 0
        /\ Len(compiler.scopes) = 1
        /\ Len(compiler.tabs) = 1
        /\ compiler.tabs[1].outer = 0
        /\ Bytecode(compiler).Instructions = compiler.scopes[1].insns

\* C25 for the programs Compile went through as a whole.
BackInMainScopeOfWhole == WholeProgram => C25_BackInMainScope

\* A program with a function literal in it has compiled.
FunctionCompiled ==
    /\ Compiled /\ compileErr = NoError
    /\ FunctionConstants(compiler) # {}
    /\ compiler.scopeIdx = 0

\* Some instruction sequence of the compiler c holds the GetBuiltin whose
\* operand is the index of builtin i in the registry of the VM.
LoadsBuiltin(c, i) ==
    \E insns \in Sequences(c) :
        \E pos \in InsnStarts(insns, 0) :
            /\ insns[pos + 1] = Op.OpGetBuiltin
            /\ pos + 1 < Len(insns)
            /\ Builtin(BuiltinNames[insns[pos + 2] + 1]) = Builtin(BuiltinNames[i])

\* C27: builtin indices agree between compiler and VM.  The name of a
\* builtin, at top level or inside a function body, compiles to the
\* GetBuiltin whose operand is the index at which the registry of the VM
\* holds that builtin, and resolving it adds no free symbol to any table.
C27_BuiltinIndices ==
    \A i \in DOMAIN BuiltinNames, inFn \in BOOLEAN :
        (Compiled /\ ast = BuiltinProgram(i, inFn)) =>
            /\ compileErr = NoError
            /\ LoadsBuiltin(compiler, i)
            /\ \A t \in DOMAIN compiler.tabs : compiler.tabs[t].FreeSymbols = <<>>

\* Compile has returned an error for the name of a builtin inside a function.
BuiltinUndefined ==
    /\ Compiled
    /\ ast = BuiltinProgram(6, TRUE)
    /\ compileErr = Errorf("undefined variable", "push")

(***************************************************************************)
(* Compilation of programs whose main scope grows past what a two-byte     *)
(* jump operand can address.  The programs are                             *)
(*     let a = 1; if (!...!true) { a + a + ... + a }                       *)
(* with p negations and n summands, the sum parsed as a balanced tree.     *)
(* They are compiled and not run.                                          *)
(***************************************************************************)
MaxBangs == 5         \* negations in front of the condition
MaxSmallLeaves == 9   \* summands of the small programs
BigLeaves == 16380    \* summands of the programs at the 16-bit boundary
MaxUint16 == 65535

RECURSIVE SumOf(_)
\* a + a + ... + a with n summands
SumOf(n) ==
    IF n = 1 THEN Ident("a")
    ELSE InfixExpression("+", SumOf(n \div 2), SumOf(n - (n \div 2)))

RECURSIVE Bangs(_)
\* !...!true with p negations
Bangs(p) == IF p = 0 THEN BooleanLiteral(TRUE) ELSE PrefixExpression("!", Bangs(p - 1))

LargeIf(n, p) ==
    Program(<<LetStatement("a", IntegerLiteral(1)),
              ExpressionStatement(IfExpression(Bangs(p),
                  Block1(ExpressionStatement(SumOf(n))), NoAlternative))>>)

LargeLeaves == (1..MaxSmallLeaves) \cup {BigLeaves}

LargePrograms == {LargeIf(n, p) : n \in LargeLeaves, p \in 0..MaxBangs}

InitLarge ==
    /\ SymIdle
    /\ NoCodec
    /\ NoRepl
    /\ phase = "source"
    /\ ast \in LargePrograms
    /\ compiler = New
    /\ compileErr = NoError
    /\ vm = <<>>
    /\ vmErr = NoError
    /\ calls = NoCalls

NextLarge == CompileProgram

SpecLarge == InitLarge /\ [][NextLarge]_vars

\* In the instructions of LargeIf(n, p): the let takes 6 bytes, the condition
\* 1 + p, JumpNotTruthy 3, the sum 4n - 1, Jump 3, Nil 1 and Pop 1.
JumpNotTruthyPos(p) == 7 + p
AfterConsequencePos(n, p) == (4 * n) + 12 + p
AfterAlternativePos(n, p) == (4 * n) + 13 + p

\* The two jumps of the conditional hold their targets.
JumpsExact(insns, n, p) ==
    /\ Len(insns) = AfterAlternativePos(n, p) + 1
    /\ insns[JumpNotTruthyPos(p) + 1] = Op.OpJumpNotTruthy
    /\ ReadUint16(insns, JumpNotTruthyPos(p) + 1) = AfterConsequencePos(n, p)
    /\ insns[AfterConsequencePos(n, p) - 2] = Op.OpJump
    /\ ReadUint16(insns, AfterConsequencePos(n, p) - 2) = AfterAlternativePos(n, p)

TooLarge == Errorf("function too large", "")

JumpsExactWithinBounds ==
    \A n \in LargeLeaves, p \in 0..MaxBangs :
        (Compiled /\ ast = LargeIf(n, p) /\ AfterAlternativePos(n, p) < MaxUint16) =>
            compileErr = NoError /\ JumpsExact(compiler.scopes[1].insns, n, p)

\* Compile has returned nil for a conditional whose consequence ends at
\* offset 65536, and the JumpNotTruthy holds 0.
JumpTruncated ==
    /\ Compiled
    /\ ast = LargeIf(BigLeaves, 4)
    /\ compileErr = NoError
    /\ Len(compiler.scopes[1].insns) = 65538
    /\ ReadUint16(compiler.scopes[1].insns, JumpNotTruthyPos(4) + 1) = 0

\* The iteration of Run about to execute is a Pop.
Popping == Stepping /\ NextOp(vm) = Op.OpPop

\* The last statement of the program of the session is an expression statement.
EndsInExpression ==
    /\ ast # <<>>
    /\ ast.Statements # <<>>
    /\ ast.Statements[Len(ast.Statements)].Type = "ExpressionStatement"

LastExpression == ast.Statements[Len(ast.Statements)].Expression

\* The expression is a literal whose value needs no evaluation.
IsLiteral(e) == e.Type \in {"IntegerLiteral", "Boolean"}
LiteralValue(e) ==
    IF e.Type = "IntegerLiteral" THEN Integer(e.Value)
    ELSE nativeBoolToBooleanObject(e.Value)

\* C30: every Pop decrements sp by one, writes no slot of the stack and leaves
\* the value pop returned where LastPoppedStackElem reads it, so that after
\* the run of a program that ends in an expression statement
\* LastPoppedStackElem is the value its last Pop popped.
C30_PopDecrements ==
    [][Popping =>
          /\ vm'.sp = vm.sp - 1
          /\ vm'.stack = vm.stack
          /\ LastPoppedStackElem(vm') = pop(vm).obj]_vars

\* What holds of pop: on a stack that is not empty it changes only sp, which
\* it decrements by one, and writes no slot, so that right after it
\* LastPoppedStackElem is the value pop returned; on an empty stack it
\* returns nil and changes nothing, sp included.  The machine a run ends
\* with is as its last iteration left it, and after the run of a whole
\* program whose last statement is a literal LastPoppedStackElem is its value.
PopChangesOnlySp ==
    /\ [][(Popping /\ vm.sp > 0) =>
             /\ pop(vm).obj = StackAt(vm, vm.sp - 1)
             /\ pop(vm).vm = [vm EXCEPT !.sp = vm.sp - 1]
             /\ vm'.sp = vm.sp - 1
             /\ vm'.stack = vm.stack
             /\ LastPoppedStackElem(vm') = pop(vm).obj
             /\ vmErr' = NoError]_vars
    /\ [][(Popping /\ vm.sp = 0) =>
             /\ pop(vm) = [vm |-> vm, obj |-> GoNil]
             /\ vm'.sp = 0
             /\ vm'.stack = vm.stack]_vars
    /\ [][(phase = "running" /\ phase' = "halted") => vm' = vm]_vars
    /\ []((phase = "halted" /\ WholeProgram /\ EndsInExpression
              /\ IsLiteral(LastExpression)) =>
             LastPoppedStackElem(vm) = LiteralValue(LastExpression))

\* The run of let a = 1; 2 has ended: its Pop left 2 above the stack pointer.
LastPoppedIsLastValue ==
    /\ phase = "halted"
    /\ EndsInExpression
    /\ LastExpression = IntegerLiteral(2)
    /\ Len(ast.Statements) = 2
    /\ vm.sp = 0
    /\ LastPoppedStackElem(vm) = Integer(2)

\* The run of let a = 1; nil has ended without error, and LastPoppedStackElem
\* is the 1 of the let statement.
LastPoppedIsStale ==
    /\ phase = "halted"
    /\ ast = Program(<<LetStatement("a", IntegerLiteral(1)),
                       ExpressionStatement(NilLiteral)>>)
    /\ vmErr = NoError
    /\ LastPoppedStackElem(vm) = Integer(1)

\* A Pop is about to execute on an empty stack whose slot 0 holds a value.
PopOnEmptyStack ==
    /\ Popping
    /\ vm.sp = 0
    /\ StackAt(vm, 0) # GoNil

\* The iteration of Run about to execute is a Div of two integers, the right
\* one 0.
DividingByZero ==
    /\ Stepping
    /\ NextOp(vm) = Op.OpDiv
    /\ vm.sp >= 2
    /\ StackAt(vm, vm.sp - 1) = Integer(0)
    /\ StackAt(vm, vm.sp - 2).Type = "INTEGER"

\* C31: a Div of two integers whose right operand is 0 does not crash the VM:
\* Run returns an error or pushes an integer, and sp and the frames stay
\* within their bounds.
C31_DivByZeroIsNoCrash ==
    [][DividingByZero =>
          /\ phase' \in {"running", "failed"}
          /\ phase' = "failed" => vmErr'.kind # "panic"
          /\ phase' = "running" =>
                /\ vm'.sp = vm.sp - 1
                /\ StackAt(vm', vm'.sp - 1).Type = "INTEGER"
          /\ 0 <= vm'.sp /\ vm'.sp <= StackSize
          /\ 1 <= vm'.framesIdx /\ vm'.framesIdx <= MaxFrames]_vars

\* A Div of two integers whose right operand is not 0 pushes the quotient
\* truncated toward zero.
DivPushesQuotient ==
    [][(/\ Stepping
        /\ NextOp(vm) = Op.OpDiv
        /\ vm.sp >= 2
        /\ StackAt(vm, vm.sp - 1).Type = "INTEGER"
        /\ StackAt(vm, vm.sp - 2).Type = "INTEGER"
        /\ StackAt(vm, vm.sp - 1).Value # 0) =>
           /\ phase' = "running"
           /\ vm'.sp = vm.sp - 1
           /\ StackAt(vm', vm'.sp - 1) =
                 Integer(Quo(StackAt(vm, vm.sp - 2).Value, StackAt(vm, vm.sp - 1).Value))]_vars

\* The process has crashed in the run of -1 / 0.
DivByZeroCrashed ==
    /\ phase = "crashed"
    /\ ast = DivProgram(4, 1)
    /\ vmErr = Errorf("panic", "integer divide by zero")

\* The run of -1 / 2 has ended with 0.
DivTruncates ==
    /\ phase = "halted"
    /\ ast = DivProgram(4, 3)
    /\ LastPoppedStackElem(vm) = Integer(0)

\* The function LocalsProgram compiles to is the last constant; the function
\* it captures a binding in is the one before.
OuterFunction(c) == c.consts[Len(c.consts)]
InnerFunction(c) == c.consts[Len(c.consts) - 1]

\* C32: the numLocals recorded for a compiled function is the number of
\* Define calls of its scope, parameters plus let bindings, and does not grow
\* with the free variables captured: the function of k parameters and l let
\* bindings has k + l locals, and the function that only reads a binding of
\* its enclosing function has none.
C32_NumLocalsCountsDefines ==
    \A t \in LocalsShapes :
        (Compiled /\ ast = LocalsProgram(t[1], t[2], t[3])) =>
            /\ compileErr = NoError
            /\ OuterFunction(compiler).Type = "COMPILED_FUNCTION"
            /\ OuterFunction(compiler).NumLocals = t[1] + t[2]
            /\ t[3] => /\ InnerFunction(compiler).Type = "COMPILED_FUNCTION"
                       /\ InnerFunction(compiler).NumLocals = 0

\* What the compiler records: the let bindings alone, whatever the number of
\* parameters and of captured variables.
NumLocalsCountsLets ==
    \A t \in LocalsShapes :
        (Compiled /\ ast = LocalsProgram(t[1], t[2], t[3])) =>
            /\ compileErr = NoError
            /\ OuterFunction(compiler).Type = "COMPILED_FUNCTION"
            /\ OuterFunction(compiler).NumLocals = t[2]
            /\ t[3] => /\ InnerFunction(compiler).Type = "COMPILED_FUNCTION"
                       /\ InnerFunction(compiler).NumLocals = 0

\* numDefs of every table is the number of Define calls made on it, whatever
\* DefineBuiltin and Resolve did to the table.
NumDefsCountsDefines ==
    /\ Len(symDefCount) = Len(symTabs)
    /\ \A s \in DOMAIN symTabs : symTabs[s].numDefs = symDefCount[s]

\* Compile has returned a function of two parameters and one let binding
\* with one local.
ParametersNotCounted ==
    /\ Compiled
    /\ ast = LocalsProgram(2, 1, TRUE)
    /\ compileErr = NoError
    /\ OuterFunction(compiler).NumLocals = 1

\* A table holds a builtin and a free symbol and has counted one Define.
NumDefsBesideBuiltinAndFree ==
    /\ Len(symTabs) >= 2
    /\ symTabs[Len(symTabs)].numDefs = 1
    /\ Len(symTabs[Len(symTabs)].FreeSymbols) >= 1
    /\ \E n \in DOMAIN symTabs[1].store : symTabs[1].store[n].Scope = BuiltinScope

\* A VM exists: the session is past StartVM.
VMLive == phase \in {"running", "halted", "failed", "crashed"}

\* The process crashed on an index outside an array or a slice.
IndexCrash ==
    /\ phase = "crashed"
    /\ vmErr.arg \in {"index out of range", "slice bounds out of range"}

\* C33: in every state of the VM of a program Compile went through as a
\* whole, 0 <= sp <= StackSize, the slots written are within the stack, and
\* Run has not crashed on an index outside it.
C33_SpWithinStack ==
    (VMLive /\ ast # <<>> /\ WholeProgram) =>
        /\ 0 <= vm.sp
        /\ vm.sp <= StackSize
        /\ Len(vm.stack) <= StackSize
        /\ ~IndexCrash

\* The same without the programs that hold a return statement at their top
\* level or a literal Compile has no case for.
TopReturns ==
    \E i \in DOMAIN ast.Statements : ast.Statements[i].Type = "ReturnStatement"

RECURSIVE HasNilLiteral(_)
HasNilLiteral(node) ==
    \/ node.Type = "NilLiteral"
    \/ \E i \in DOMAIN Children(node) : HasNilLiteral(Children(node)[i])

SpWithinStackElsewhere ==
    (VMLive /\ ast # <<>> /\ WholeProgram /\ ~TopReturns /\ ~HasNilLiteral(ast)) =>
        /\ 0 <= vm.sp
        /\ vm.sp <= StackSize
        /\ Len(vm.stack) <= StackSize
        /\ ~IndexCrash

\* The run of return 1; has crashed with sp = -1.
SpBelowZero ==
    /\ phase = "crashed"
    /\ ast = Program(<<ReturnStatement(IntegerLiteral(1))>>)
    /\ vm.sp = -1
    /\ vmErr = Errorf("panic", "index out of range")

\* The iteration of Run about to run executes ReturnValue or Return.
Returning == Stepping /\ NextOp(vm) \in {Op.OpReturnValue, Op.OpReturn}

\* C34: the main frame is never popped.  In every state of the run of a
\* program Compile went through as a whole there is at least one live frame,
\* and ReturnValue and Return are executed in a frame above the main frame.
C34_MainFrameStays ==
    (VMLive /\ ast # <<>> /\ WholeProgram) =>
        /\ vm.framesIdx >= 1
        /\ Returning => vm.framesIdx > 1

\* The same for every session but those of a program with a return statement
\* at its top level.
MainFrameStaysElsewhere ==
    (VMLive /\ ~(ast # <<>> /\ TopReturns)) =>
        /\ vm.framesIdx >= 1
        /\ Returning => vm.framesIdx > 1

\* Run is about to execute the ReturnValue of  return 1;  in the main frame.
ReturnInMainFrame ==
    /\ Returning
    /\ ast = Program(<<ReturnStatement(IntegerLiteral(1))>>)
    /\ vm.framesIdx = 1

\* The run of  let a = 1; return a;  has popped the main frame.
MainFramePopped ==
    /\ phase = "crashed"
    /\ ast = Program(<<LetStatement("a", IntegerLiteral(1)), ReturnStatement(Ident("a"))>>)
    /\ vm.framesIdx = 0
    /\ vm.sp = -1

\* Run is about to execute a ReturnValue or Return in a frame made by Call.
ReturnInCallFrame == Returning /\ vm.framesIdx > 1

\* The operands of the GetLocal and SetLocal instructions of a sequence.
LocalIndexes(insns) ==
    {ReadUint8(insns, pos + 1) :
        pos \in {q \in InsnStarts(insns, 0) :
                    /\ insns[q + 1] \in {Op.OpGetLocal, Op.OpSetLocal}
                    /\ q + 1 < Len(insns)}}

\* Every GetLocal / SetLocal of the function fn has an index below its numLocals.
LocalIndexesFit(fn) == \A i \in LocalIndexes(fn.Instructions) : i < fn.NumLocals

\* A frame made by Call is the current frame and Run is about to fetch.
InFunctionFrame == Stepping /\ vm.framesIdx > 1

\* The first stack index above the local bindings of the current frame.
AboveLocals(m) == currentFrame(m).bp + currentFrame(m).cl.Fn.NumLocals

\* C35: expression temporaries never overwrite local bindings.  Every
\* GetLocal / SetLocal index of a function Compile produced is below the
\* numLocals of that function, and while a frame made by Call is the current
\* frame, sp >= bp + numLocals holds before every instruction fetch.
C35_TemporariesAboveLocals ==
    /\ (Compiled /\ compileErr = NoError /\ WholeProgram) =>
            \A fn \in FunctionConstants(compiler) : LocalIndexesFit(fn)
    /\ InFunctionFrame => vm.sp >= AboveLocals(vm)

\* The run-time half alone, and with it: the functions of the assembled
\* programs keep their local indexes below numLocals.
SpAboveLocals ==
    InFunctionFrame =>
        /\ vm.sp >= AboveLocals(vm)
        /\ ast = <<>> => LocalIndexesFit(currentFrame(vm).cl.Fn)

\* The compile-time half for the functions that capture nothing.
LocalIndexesFitWithoutCapture ==
    \A t \in LocalsShapes :
        (Compiled /\ ast = LocalsProgram(t[1], t[2], FALSE)) =>
            /\ compileErr = NoError
            /\ LocalIndexesFit(OuterFunction(compiler))

\* fn() { let a = 1; fn() { a } } is compiled: the inner function reads a
\* with GetLocal 0 and has no local binding.
FreeReadAsLocal ==
    /\ Compiled
    /\ ast = LocalsProgram(0, 1, TRUE)
    /\ compileErr = NoError
    /\ InnerFunction(compiler).NumLocals = 0
    /\ LocalIndexes(InnerFunction(compiler).Instructions) = {0}

\* Run is about to fetch in a frame made by Call with a temporary above the
\* local bindings of a function that has some.
TemporaryAboveLocals ==
    /\ InFunctionFrame
    /\ currentFrame(vm).cl.Fn.NumLocals > 0
    /\ vm.sp > AboveLocals(vm)

\* The conditional of the session, if the program is one of IfEndPrograms.
IfEndShape == CHOOSE t \in IfEndShapes : ast = IfEndProgram(t[1], t[2], t[3])

\* The block of the path the run of the conditional takes; 0 if it is the
\* Nil of a conditional without else.
PathBlock == IF IfEndShape[1] THEN IfEndShape[2] ELSE IfEndShape[3]

\* Run is in the main frame, about to execute the Pop after the conditional.
AfterConditional ==
    /\ ast \in IfEndPrograms
    /\ Stepping
    /\ vm.framesIdx = 1
    /\ currentFrame(vm).ip = Len(Instructions(currentFrame(vm))) - 2
    /\ NextOp(vm) = Op.OpPop

\* C36: both paths of a compiled conditional have the same stack effect.
\* Whatever the last statement of each block is, the program compiles, and
\* when the path taken reaches the instruction that follows the conditional
\* there is exactly one more value on the stack than before its condition.
C36_IfLeavesOneValue ==
    /\ (ast \in IfEndPrograms /\ Compiled) => compileErr = NoError
    /\ AfterConditional => vm.sp = 1

\* The same for the paths that end in an expression statement or are the
\* Nil of a missing else.
IfLeavesOneValueAfterExpression ==
    (AfterConditional /\ PathBlock \in {0, 1}) =>
        /\ vm.sp = 1
        /\ StackAt(vm, 0) = IF PathBlock = 0 THEN Nil ELSE Integer(10)

\* A path through an empty block or a block that ends in a let statement
\* leaves nothing.
IfLeavesNothingAfterLet ==
    (AfterConditional /\ PathBlock \in {2, 3}) => vm.sp = 0

\* if (true) { let a = 1; } else { 10 } has taken its consequence: the Pop
\* that follows finds an empty stack.
LetBlockLeavesNothing ==
    /\ AfterConditional
    /\ ast = IfEndProgram(TRUE, 3, 1)
    /\ vm.sp = 0

\* if (false) { 10 } else { } has taken its empty alternative.
EmptyBlockLeavesNothing ==
    /\ AfterConditional
    /\ ast = IfEndProgram(FALSE, 1, 2)
    /\ vm.sp = 0

\* if (false) { return 1; } else { 10 } has taken its alternative: one value.
ExpressionBlockLeavesOne ==
    /\ AfterConditional
    /\ ast = IfEndProgram(FALSE, 4, 1)
    /\ vm.sp = 1

(***************************************************************************)
(* Recursion up to the limits of the VM: assembled programs in which a     *)
(* global function calls itself without end, holding some values on the    *)
(* stack across each call, or counts its argument down to zero.            *)
(***************************************************************************)
MaxPending == 2     \* values a recursive call leaves pending on the stack
MaxCountdown == 2   \* the argument of the function that counts down

\* The bytecode of  let f = fn() { 1 + (1 + f()) }; f()  with w pending
\* additions in the body.  Constants: 0 is f, 1 is the integer 1.
RecursionProgram(w) ==
    LET body == Asm([j \in 1..w |-> <<"OpConstant", 1>>]
                    \o << <<"OpGetGlobal", 0>>, <<"OpCall", 0>> >>
                    \o [j \in 1..w |-> <<"OpAdd">>]
                    \o << <<"OpReturnValue">> >>)
        main == Asm(<< <<"OpClosure", 0, 0>>, <<"OpSetGlobal", 0>>,
                       <<"OpGetGlobal", 0>>, <<"OpCall", 0>>, <<"OpPop">> >>)
    IN [Instructions |-> main,
        Constants |-> <<CompiledFunction(body, 0, 0, ConstAddr(0)), Integer(1)>>]

\* The bytecode of  let f = fn(n) { if (n == 0) { 0 } else { f(n - 1) } }; f(n).
\* Constants: 0 is f, 1 is the integer 0, 2 is the integer 1, 3 is n.
CountdownProgram(n) ==
    LET body == Asm(<< <<"OpGetLocal", 0>>, <<"OpConstant", 1>>, <<"OpEqual">>,
                       <<"OpJumpNotTruthy", 15>>, <<"OpConstant", 1>>,
                       <<"OpJump", 26>>, <<"OpGetGlobal", 0>>, <<"OpGetLocal", 0>>,
                       <<"OpConstant", 2>>, <<"OpSub">>, <<"OpCall", 1>>,
                       <<"OpReturnValue">> >>)
        main == Asm(<< <<"OpClosure", 0, 0>>, <<"OpSetGlobal", 0>>,
                       <<"OpGetGlobal", 0>>, <<"OpConstant", 3>>, <<"OpCall", 1>>,
                       <<"OpPop">> >>)
    IN [Instructions |-> main,
        Constants |-> <<CompiledFunction(body, 1, 1, ConstAddr(0)),
                        Integer(0), Integer(1), Integer(n)>>]

LimitPrograms ==
    {RecursionProgram(w) : w \in 0..MaxPending}
    \cup {CountdownProgram(n) : n \in 0..MaxCountdown}

InitLimits ==
    /\ SymIdle
    /\ NoCodec
    /\ NoRepl
    /\ phase = "running"
    /\ ast = <<>>
    /\ compiler = <<>>
    /\ compileErr = NoError
    /\ \E bytecode \in LimitPrograms : vm = NewWithGlobalStore(bytecode, NoGlobals)
    /\ vmErr = NoError
    /\ calls = NoHistory

\* The iterations of the loop of Run taken several at a time.
BurstSizes == {32}

\* n iterations of the loop of Run (fewer if Run returns before), as one step:
\* nothing observes the machine between two iterations.
VMSteps(n) ==
    /\ phase = "running"
    /\ Running(vm)
    /\ calls = NoHistory
    /\ LET r == RunSteps(vm, n)
       IN /\ vm' = r.vm
          /\ vmErr' = r.err
          /\ phase' = IF r.err = NoError THEN "running"
                      ELSE IF r.err.kind = "panic" THEN "crashed" ELSE "failed"
    /\ UNCHANGED <<ast, compiler, compileErr, calls, notRun>>

NextLimits ==
    \/ VMStep
    \/ \E n \in BurstSizes : VMSteps(n)
    \/ VMReturn

SpecLimits == InitLimits /\ [][NextLimits]_vars

\* The instruction Run is about to execute pushes before it pops anything.
NextOpOnlyPushes ==
    \/ NextOp(vm) \in {Op.OpConstant, Op.OpTrue, Op.OpFalse, Op.OpNil, Op.OpGetGlobal,
                       Op.OpGetLocal, Op.OpGetBuiltin, Op.OpGetFree}
    \/ /\ NextOp(vm) \in {Op.OpArray, Op.OpHash}
       /\ ReadUint16(Instructions(currentFrame(vm)), currentFrame(vm).ip + 2) = 0

\* C14: a push onto a full stack (sp = StackSize) makes Run return the error
\* stack overflow at that instruction, and changes neither sp nor any slot of
\* the stack.
C14_PushOnFullStack ==
    [][(Stepping /\ vm.sp = StackSize /\ NextOpOnlyPushes) =>
           /\ phase' = "failed"
           /\ vmErr' = Errorf("stack overflow", "")
           /\ vm'.sp = vm.sp
           /\ vm'.stack = vm.stack
           /\ vm'.framesIdx = vm.framesIdx]_vars

\* Run has returned stack overflow from a recursive call, with the stack full.
C14_Witness ==
    /\ phase = "failed"
    /\ vmErr = Errorf("stack overflow", "")
    /\ vm.sp = StackSize
    /\ Len(vm.stack) = StackSize
    /\ vm.framesIdx > 1

\* C15: a Call of a closure when MaxFrames frames are live makes Run return an
\* error (the run fails, the process does not crash), and the frames stay
\* within the frame array.
C15_FrameOverflowIsError ==
    [][(/\ Stepping
        /\ NextOp(vm) = Op.OpCall
        /\ vm.framesIdx >= MaxFrames
        /\ StackAt(vm, vm.sp - 1 - NextOperand8(vm)).Type = "CLOSURE") =>
           /\ phase' = "failed"
           /\ vmErr'.kind # "panic"
           /\ vm'.framesIdx <= MaxFrames
           /\ Len(vm'.frames) <= MaxFrames]_vars

(***************************************************************************)
(* The REPL (Start): one symbol table, one constant pool and one globals   *)
(* slice are created before the loop; every turn compiles a line with a    *)
(* new Compiler on that table and pool and runs it in a new VM on those    *)
(* globals.  A line is the program the parser made of it.                  *)
(***************************************************************************)
MaxTurns == 3       \* lines read by the REPL

Lines ==
    {Program(<<LetStatement("a", IntegerLiteral(1))>>),
     Program(<<LetStatement("b", IntegerLiteral(2))>>),
     Program(<<LetStatement("a", Ident("b"))>>),
     Program(<<ExpressionStatement(Ident("x"))>>),
     Program(<<LetStatement("a", Ident("x"))>>),
     Program(<<LetStatement("a", InfixExpression("+", IntegerLiteral(1),
                                                 BooleanLiteral(TRUE)))>>),
     Program(<<ExpressionStatement(InfixExpression("+", IntegerLiteral(1),
                                                   BooleanLiteral(TRUE)))>>),
     Program(<<LetStatement("b", IntegerLiteral(2)), ExpressionStatement(Ident("x"))>>),
     Program(<<ExpressionStatement(Ident("a"))>>),
     Program(<<ExpressionStatement(Ident("b"))>>),
     Program(<<LetStatement("f", FunctionLiteral(<<>>,
                  Block1(ExpressionStatement(IntegerLiteral(5)))))>>),
     Program(<<ExpressionStatement(IntegerLiteral(3)),
               ExpressionStatement(PrefixExpression("-", FunctionLiteral(<<>>,
                  BlockStatement(<<ExpressionStatement(IntegerLiteral(4)),
                                   ExpressionStatement(Ident("x"))>>))))>>)}

\* What a turn prints.
Printed(kind, what) == [kind |-> kind, what |-> what]

\* The names a program binds with let at its top level.
LetNames(program) ==
    {program.Statements[i].Name :
        i \in {j \in DOMAIN program.Statements :
                 program.Statements[j].Type = "LetStatement"}}

\* The end of a turn whose program ran: r2 is the REPL after the run, bound
\* the names the program binds.  The error or the last popped element is
\* printed.
TurnPrint(r2, bound, run) ==
    LET lastPopped == LastPoppedStackElem(run.vm)
        value(n) == LET i == r2.symbolTable[1].store[n].Index
                    IN IF i \in DOMAIN r2.globals THEN r2.globals[i] ELSE GoNil
    IN IF run.err # NoError /\ run.err.kind = "panic"
       THEN [r2 EXCEPT !.out = Printed("panic", run.err), !.status = "crashed"]
       ELSE IF run.err # NoError
       THEN [r2 EXCEPT !.out = Printed("Woops! Executing bytecode failed", run.err)]
       ELSE [r2 EXCEPT
                !.out = IF lastPopped = GoNil
                        THEN Printed("no object at top of stack", GoNil)
                        ELSE Printed("Inspect", lastPopped),
                !.env = [n \in (DOMAIN @) \cup bound |->
                            IF n \in bound THEN value(n) ELSE @[n]]]

\* The turn after complr.Compile(program) returned: c is the compiler.
TurnCompiled(r, program, c) ==
    \* the table the REPL holds is the global one, which Compile changes in place
    LET r1 == [r EXCEPT !.symbolTable = <<c.tabs[1]>>, !.turns = @ + 1]
    IN IF Failed(c)
       THEN [r1 EXCEPT !.out = Printed("Woops! Compilation failed", c.err)]
       ELSE \* the VM writes the globals slice the REPL holds
            LET run == Run(NewWithGlobalStore(Bytecode(c), r.globals))
            IN TurnPrint([r1 EXCEPT !.constants = c.consts, !.globals = run.vm.globals],
                         LetNames(program), run)

\* One turn of the loop of Start on the REPL r: the REPL after it.  env is
\* history: the value of every name bound by a turn that ended without error.
Turn(r, program) ==
    TurnCompiled(r, program, Compile(NewWithState(r.symbolTable, r.constants), program))

ReplInit ==
    /\ SymIdle
    /\ NoSession
    /\ NoCodec
    /\ repl = [symbolTable |-> <<NewSymbolTable>>, constants |-> <<>>,
               globals |-> NoGlobals, out |-> Printed("", GoNil), turns |-> 0,
               status |-> "reading", env |-> [n \in {} |-> GoNil]]

ReplTurn(program) ==
    /\ repl.status = "reading"
    /\ repl.turns < MaxTurns
    /\ repl' = Turn(repl, program)
    /\ UNCHANGED notRepl

ReplNext == \E program \in Lines : ReplTurn(program)

SpecRepl == ReplInit /\ [][ReplNext]_vars

\* What the REPL r prints for the line that is the name n alone.
UseOf(r, n) == Turn(r, Program(<<ExpressionStatement(Ident(n))>>)).out

\* C17: in a REPL session every name bound by a turn that ended without error
\* stays usable after later turns that fail to compile or to run: the line
\* made of the name compiles and prints the value the name was given.
C17_DefinitionsSurviveFailedTurns ==
    repl # <<>> =>
        \A n \in DOMAIN repl.env : UseOf(repl, n) = Printed("Inspect", repl.env[n])

\* Every Constant and every Closure of the instruction sequences of the
\* compiler c has an operand below the length of the pool of c.
ConstantOperandsInPool(c) ==
    \A insns \in Sequences(c) :
        \A pos \in InsnStarts(insns, 0) :
            insns[pos + 1] \in {Op.OpConstant, Op.OpClosure} =>
                /\ pos + 2 < Len(insns)
                /\ ReadUint16(insns, pos + 1) < Len(c.consts)

\* The compiler c0 stays append-only over the Compile calls of the statements
\* of program, one after the other: the pool before each is a prefix of the
\* pool after it.
AppendsOnly(c0, program) ==
    \A k \in 1..Len(program.Statements) :
        IsPrefix(CompileEach(c0, SubSeq(program.Statements, 1, k - 1)).consts,
                 CompileEach(c0, SubSeq(program.Statements, 1, k)).consts)

\* The pool of the compiler c, which compiled from the pool before, extends
\* it, and its instructions refer into it.
ExtendsPool(before, c) ==
    /\ IsPrefix(before, c.consts)
    /\ ConstantOperandsInPool(c)

\* C26: the constant pool is append-only.  Whatever line the REPL reads next,
\* the compiler made by NewWithState from the pool of the earlier turns ends
\* with a pool the earlier pool is a prefix of, statement by statement, and
\* every Constant or Closure operand it emitted is below the length of the
\* pool at the end; and the pool the REPL holds after a turn extends the pool
\* it held before.
C26_PoolAppendOnly ==
    /\ [](repl # <<>> =>
            \A program \in Lines :
                /\ AppendsOnly(NewWithState(repl.symbolTable, repl.constants), program)
                /\ ExtendsPool(repl.constants,
                               Compile(NewWithState(repl.symbolTable, repl.constants),
                                       program)))
    /\ [][IsPrefix(repl.constants, repl'.constants)]_vars

\* Three turns have grown the pool to an integer, a function and the integer
\* of its body.
C26_Witness ==
    /\ repl # <<>>
    /\ repl.turns = MaxTurns
    /\ Len(repl.constants) >= 3
    /\ \E i \in DOMAIN repl.constants : repl.constants[i].Type = "COMPILED_FUNCTION"
    /\ \E i \in DOMAIN repl.constants : repl.constants[i] = Integer(1)

\* A turn whose compilation failed after adding a constant leaves the pool of
\* the REPL as it was.
PoolAfterFailedTurn ==
    /\ repl # <<>>
    /\ repl.out.kind = "Woops! Compilation failed"
    /\ Len(repl.constants) >= 1

\* In a compile-and-run session, whatever Compile returned, the instructions
\* of the compiler refer into its pool.
ConstantOperandsInPoolCompiled == Compiled => ConstantOperandsInPool(compiler)

\* vm.globals[i]: a slot never written holds nil.
GlobalAt(m, i) == IF i \in DOMAIN m.globals THEN m.globals[i] ELSE GoNil

\* The store of m2 is that of m1 but for slot i, which holds obj.
StoreBut(m1, m2, i, obj) ==
    \A j \in (DOMAIN m1.globals) \cup (DOMAIN m2.globals) \cup {i} :
        GlobalAt(m2, j) = IF j = i THEN obj ELSE GlobalAt(m1, j)

\* What the iteration of Run that took the machine m to the result r did to
\* the store and with it: SetGlobal i puts the popped value in slot i and
\* changes no other slot, GetGlobal i pushes slot i, and nothing but
\* SetGlobal changes the store.
GlobalStep(m, r) ==
    LET i == ReadUint16(Instructions(currentFrame(m)), currentFrame(m).ip + 2)
    IN /\ NextOp(m) = Op.OpSetGlobal =>
             /\ r.err = NoError
             /\ r.vm.sp = (IF m.sp = 0 THEN 0 ELSE m.sp - 1)
             /\ StoreBut(m, r.vm, i, IF m.sp = 0 THEN GoNil ELSE StackAt(m, m.sp - 1))
       /\ (NextOp(m) = Op.OpGetGlobal /\ r.err = NoError) =>
             /\ r.vm.sp = m.sp + 1
             /\ StackAt(r.vm, m.sp) = GlobalAt(m, i)
       /\ NextOp(m) # Op.OpSetGlobal => r.vm.globals = m.globals

RECURSIVE GlobalSteps(_)
RECURSIVE GlobalStepsFrom(_, _)
\* Every iteration of Run from the machine m on is a GlobalStep.
GlobalSteps(m) ==
    IF ~Running(m) THEN TRUE
    ELSE GlobalStepsFrom(m, RunStep(m))

GlobalStepsFrom(m, r) ==
    /\ GlobalStep(m, r)
    /\ IsError(r) \/ GlobalSteps(r.vm)

\* The VM made for the bytecode of the compiler c on the store of the REPL r
\* starts from that store as it is, and its run is made of GlobalSteps.
RunsOnStore(r, c) ==
    \/ Failed(c)
    \/ /\ NewWithGlobalStore(Bytecode(c), r.globals).globals = r.globals
       /\ GlobalSteps(NewWithGlobalStore(Bytecode(c), r.globals))

\* C29: SetGlobal i stores the popped value in slot i of the global store
\* and changes no other slot, GetGlobal i pushes what slot i holds, no other
\* instruction changes the store, and NewWithGlobalStore hands the VM the
\* store of the caller as it is: whatever line the REPL reads next, the VM of
\* that turn starts from the store the earlier turns left.
C29_GlobalStore ==
    repl # <<>> =>
        \A program \in Lines :
            RunsOnStore(repl, Compile(NewWithState(repl.symbolTable, repl.constants),
                                      program))

\* Three turns: let a = 1, let b = 2, let a = b.  The third VM has read slot
\* 1, written by the second, and overwritten slot 0, written by the first.
C29_Witness ==
    /\ repl # <<>>
    /\ repl.turns = MaxTurns
    /\ DOMAIN repl.globals = {0, 1}
    /\ repl.globals[0] = Integer(2)
    /\ repl.globals[1] = Integer(2)
    /\ repl.env["a"] = Integer(2)

\* In a compile-and-run session every iteration of Run is a GlobalStep.
GlobalStepsOfSession ==
    [][Stepping => GlobalStep(vm, Result(vm', vmErr'))]_vars

(***************************************************************************)
(* The codec as a state machine: Make is called with an opcode byte and a  *)
(* list of operands, and ReadOperands is called on what Make returned,     *)
(* without its first byte (as TestReadOperands does).                      *)
(***************************************************************************)
MaxOperands == 2    \* operands handed to Make

\* The opcode bytes tried: every opcode with a definition and one without.
Opcodes == 0..(Len(OpcodeNames) + Len(OpcodeNamesRest))

\* Operands around the ends of one and of two bytes.
OperandValues == {0, 1, 255, 256, 65534, 65535, 65536, 65791}

OperandLists == UNION {[1..n -> OperandValues] : n \in 0..MaxOperands}

CodecInit ==
    /\ SymIdle
    /\ NoSession
    /\ NoRepl
    /\ \E op \in Opcodes, operands \in OperandLists :
          codec = [stage |-> "input", op |-> op, operands |-> operands,
                   insn |-> <<>>, read |-> [operands |-> <<>>, offset |-> 0]]

\* insn := Make(op, operands...)
CodecMake ==
    /\ codec.stage = "input"
    /\ codec' = IF MakePanics(codec.op, codec.operands)
                THEN [codec EXCEPT !.stage = "panicked"]
                ELSE [codec EXCEPT !.stage = "made",
                                   !.insn = Make(codec.op, codec.operands)]
    /\ UNCHANGED notCodec

\* def, err := Lookup(op); operandsRead, n := ReadOperands(def, insn[1:])
CodecRead ==
    /\ codec.stage = "made"
    /\ Defined(codec.op)
    /\ codec' = [codec EXCEPT !.stage = "read",
                              !.read = ReadOperands(Lookup(codec.op), codec.insn, 1)]
    /\ UNCHANGED notCodec

CodecNext == CodecMake \/ CodecRead

SpecCodec == CodecInit /\ [][CodecNext]_vars

(***************************************************************************)
(* Properties of the codec.                                                *)
(***************************************************************************)
RECURSIVE Pow256(_)
Pow256(w) == IF w = 0 THEN 1 ELSE 256 * Pow256(w - 1)

\* The operand list has one value for every operand of the opcode and every
\* value fits the width of its operand.
Fits(op, xs) ==
    /\ Defined(op)
    /\ Len(xs) = Len(Lookup(op))
    /\ \A i \in 1..Len(xs) : 0 <= xs[i] /\ xs[i] < Pow256(Lookup(op)[i])

\* The bytes of operand i in an instruction of the opcode op.
OperandBytes(op, insn, i) ==
    LET start == 1 + SeqSum(SubSeq(Lookup(op), 1, i - 1))
    IN SubSeq(insn, start + 1, start + Lookup(op)[i])

RECURSIVE BigEndianValue(_)
BigEndianValue(bytes) ==
    IF bytes = <<>> THEN 0
    ELSE 256 * BigEndianValue(SubSeq(bytes, 1, Len(bytes) - 1)) + bytes[Len(bytes)]

\* C11: for every opcode and every operand list that fits its operand widths,
\* Make returns an instruction whose first byte is the opcode and whose
\* operands are big-endian, and ReadOperands on the rest of it returns exactly
\* the operands and the sum of the operand widths as the bytes read.
C11_RoundTrip ==
    (codec # <<>> /\ Fits(codec.op, codec.operands)) =>
        /\ codec.stage # "panicked"
        /\ codec.stage \in {"made", "read"} =>
              /\ codec.insn # <<>>
              /\ codec.insn[1] = codec.op
              /\ \A i \in 1..Len(codec.operands) :
                    BigEndianValue(OperandBytes(codec.op, codec.insn, i))
                        = codec.operands[i]
        /\ codec.stage = "read" =>
              codec.read = [operands |-> codec.operands,
                            offset |-> SeqSum(Lookup(codec.op))]

\* C12: Make returns for every opcode byte and every operand list; for an
\* opcode with a definition what it returns is 1 + the sum of the operand
\* widths long, and every operand passed is stored truncated to the low bits
\* of its width.
C12_MakeTotal ==
    (codec # <<>> /\ codec.stage # "input") =>
        /\ codec.stage # "panicked"
        /\ (codec.stage \in {"made", "read"} /\ Defined(codec.op)) =>
              /\ Len(codec.insn) = 1 + SeqSum(Lookup(codec.op))
              /\ \A i \in 1..Len(codec.operands) :
                    BigEndianValue(OperandBytes(codec.op, codec.insn, i))
                        = codec.operands[i] % Pow256(Lookup(codec.op)[i])


(***************************************************************************)
(* The disassembler as a state machine: Instructions.String() on a byte    *)
(* sequence, one iteration of its loop at a time.  codec holds insns, the  *)
(* loop variable i and the lines written to out.                           *)
(***************************************************************************)
MaxInsnLen == 4     \* bytes in the sequences handed to String

\* The lines of out the model keeps: a loop that writes without end is seen
\* through its first MaxLines lines.
MaxLines == MaxInsnLen + 2

\* The bytes tried: OpConstant (also an operand byte), OpPop (also an operand
\* byte), and a byte that is no opcode.
UndefinedByte == Len(OpcodeNames) + Len(OpcodeNamesRest)
DisasmBytes == {Op.OpConstant, Op.OpPop, UndefinedByte}

DisasmInputs == UNION {[1..n -> DisasmBytes] : n \in 0..MaxInsnLen}

\* The decimal digits of n >= 0, most significant first.
RECURSIVE Decimal(_)
Decimal(n) == IF n < 10 THEN <<n>> ELSE Append(Decimal(n \div 10), n % 10)

\* The hexadecimal digits of n >= 0 (%X).
RECURSIVE Hex(_)
Hex(n) == IF n < 16 THEN <<n>> ELSE Append(Hex(n \div 16), n % 16)

\* %04d: the decimal digits padded with zeros on the left to 4 at least.
Pad04(n) ==
    LET d == Decimal(n)
    IN IF Len(d) >= 4 THEN d ELSE [k \in 1..(4 - Len(d)) |-> 0] \o d

\* def.Name
DefName(op) == (OpcodeNames \o OpcodeNamesRest)[op + 1]

\* insns.formatInstruction(def, operands)
formatInstruction(op, operands) ==
    LET operandCount == Len(Lookup(op))
    IN IF Len(operands) # operandCount
       THEN <<"ERROR: operand length does not match defined">>
       ELSE IF operandCount = 0 THEN <<DefName(op)>>
       ELSE IF operandCount = 1 THEN <<DefName(op), "0x", Hex(operands[1])>>
       ELSE <<"ERROR: unhandled operand width for", DefName(op)>>

\* ReadOperands(def, insns[offset:]) reads two bytes beyond the end of insns:
\* binary.BigEndian.Uint16 panics on a slice shorter than 2.
ReadOperandsPanics(widths, insns, offset) ==
    \E k \in DOMAIN widths :
        /\ widths[k] = 2
        /\ offset + SeqSum(SubSeq(widths, 1, k - 1)) + 2 > Len(insns)

\* The lines of out: "%04d %s\n" and "ERROR: %s\n".
InsnLine(i, text) == [offset |-> Pad04(i), text |-> text]
ErrorLine(op) == [offset |-> <<>>, text |-> <<"ERROR: opcode undefined", op>>]

\* fmt.Fprintf(&out, ...), the lines beyond MaxLines not kept.
Fprintf(out, line) == IF Len(out) < MaxLines THEN Append(out, line) ELSE out

\* var out strings.Builder; i := 0
StringInit ==
    /\ SymIdle
    /\ NoSession
    /\ NoRepl
    /\ \E insns \in DisasmInputs :
          codec = [stage |-> "loop", insns |-> insns, i |-> 0, out |-> <<>>]

\* One iteration of  for i < len(insns) { ... }.
StringIterate ==
    /\ codec.stage = "loop"
    /\ codec.i < Len(codec.insns)
    /\ LET op == codec.insns[codec.i + 1]
       IN codec' =
            IF ~Defined(op)
            THEN \* fmt.Fprintf(&out, "ERROR: %s\n", err); continue
                 [codec EXCEPT !.out = Fprintf(@, ErrorLine(op))]
            ELSE IF ReadOperandsPanics(Lookup(op), codec.insns, codec.i + 1)
            THEN [codec EXCEPT !.stage = "panicked"]
            ELSE LET r == ReadOperands(Lookup(op), codec.insns, codec.i + 1)
                 IN [codec EXCEPT
                        !.out = Fprintf(@, InsnLine(codec.i,
                                                    formatInstruction(op, r.operands))),
                        !.i = @ + 1 + r.offset]
    /\ UNCHANGED notCodec

\* The condition of the loop fails: return out.String()
StringReturn ==
    /\ codec.stage = "loop"
    /\ codec.i >= Len(codec.insns)
    /\ codec' = [codec EXCEPT !.stage = "returned"]
    /\ UNCHANGED notCodec

StringNext == StringIterate \/ StringReturn

\* String runs on: nothing stops the loop between two iterations.
SpecDisasm == StringInit /\ [][StringNext]_vars /\ WF_vars(StringNext)

(***************************************************************************)
(* Properties of the disassembler.                                         *)
(***************************************************************************)
\* Every instruction of the sequence has a defined opcode and all the bytes
\* of its operands.
WellFormed(insns) ==
    \A pos \in InsnStarts(insns, 0) :
        /\ Defined(insns[pos + 1])
        /\ pos + 1 + SeqSum(Lookup(insns[pos + 1])) <= Len(insns)

\* The start positions of the instructions of a sequence, in order.
RECURSIVE StartsInOrder(_, _)
StartsInOrder(insns, pos) ==
    IF pos >= Len(insns) THEN <<>>
    ELSE <<pos>> \o StartsInOrder(insns, pos + 1 + SeqSum(Lookup(insns[pos + 1])))

\* out holds one line per instruction, each with the start position of its
\* instruction as its offset, zero-padded to 4 digits.
OneLinePerInstruction(c) ==
    LET starts == StartsInOrder(c.insns, 0)
    IN /\ Len(c.out) = Len(starts)
       /\ \A k \in DOMAIN starts :
             /\ c.out[k].offset = <<0, 0, 0, starts[k]>>
             /\ c.out[k].text[1] = DefName(c.insns[starts[k] + 1])
             /\ k > 1 => starts[k] = starts[k - 1] + 1
                                     + SeqSum(Lookup(c.insns[starts[k - 1] + 1]))

StringReturned == codec.stage = "returned"

\* The loop of String is over: it has returned, or a read beyond the end of
\* the sequence has ended it with a panic.
StringEnded == codec.stage \in {"returned", "panicked"}

\* C37: disassembly terminates.  The loop of String ends after finitely many
\* iterations for every byte sequence, a byte that is no opcode included, and
\* for a well-formed sequence what it returns holds one line per instruction
\* with the start position of the instruction, zero-padded to 4 digits.
C37_DisassemblyTerminates ==
    /\ <>StringEnded
    /\ [](StringReturned /\ WellFormed(codec.insns) => OneLinePerInstruction(codec))

\* String returns for every well-formed sequence, with one line per
\* instruction.
WellFormedDisassembles ==
    /\ WellFormed(codec.insns) => <>StringReturned
    /\ [](StringReturned /\ WellFormed(codec.insns) => OneLinePerInstruction(codec))

\* An iteration on a byte that is no opcode leaves i where it was.
UndefinedByteKeepsI ==
    [][(codec.stage = "loop" /\ codec.i < Len(codec.insns)
            /\ ~Defined(codec.insns[codec.i + 1]))
        => (codec'.i = codec.i /\ codec'.stage = "loop")]_vars

\* String returns for no sequence that holds an undefined byte at the start
\* of an instruction, nor for one whose last operand is cut short.
NotWellFormedNeverReturns ==
    [](StringReturned => WellFormed(codec.insns))

\* The loop stands on the undefined byte after Pop, having written the line of the
\* Pop and then error lines only.
StuckOnUndefinedByte ==
    /\ codec.stage = "loop"
    /\ codec.insns = <<Op.OpPop, UndefinedByte>>
    /\ codec.i = 1
    /\ Len(codec.out) = MaxLines
    /\ \A k \in 2..MaxLines : codec.out[k] = ErrorLine(UndefinedByte)

\* Constant with one operand byte: ReadUint16 has panicked.
PanickedOnShortOperand ==
    /\ codec.stage = "panicked"
    /\ codec.insns = <<Op.OpConstant, Op.OpPop>>

\* Constant 257, Pop has been disassembled: 0000 OpConstant 0x101, 0003 OpPop.
DisassembledTwoLines ==
    /\ StringReturned
    /\ codec.insns = <<Op.OpConstant, Op.OpPop, Op.OpPop, Op.OpPop>>
    /\ codec.out = <<InsnLine(0, <<"OpConstant", "0x", <<1, 0, 1>> >>),
                     InsnLine(3, <<"OpPop">>)>>

=============================================================================
